---- MODULE Spec2Model ----
(***************************************************************************)
(* Verification model of the simpleperf sampling pipeline:                 *)
(*   - RecordCache            (src/simpleperf/record.cpp)                   *)
(*   - CallChainRoot          (src/simpleperf/callchain.cpp)                *)
(*   - record codec           (src/simpleperf/record.cpp)                   *)
(*   - EventSelectionSet      (src/simpleperf/event_selection_set.cpp)      *)
(*   - IOEventLoop            (src/simpleperf/IOEventLoop.cpp)              *)
(* Each component has its own specification over the module's variables;   *)
(* the variables of the other components stay at their initial values.     *)
(***************************************************************************)
EXTENDS Integers, Sequences, FiniteSets, TLC

VARIABLES
  \* ---- RecordCache (record.cpp:914-966) ----
  has_timestamp_,         \* RecordCache::has_timestamp_
  min_cache_size_,        \* RecordCache::min_cache_size_
  min_time_diff_in_ns_,   \* RecordCache::min_time_diff_in_ns_
  last_time_,             \* RecordCache::last_time_
  cur_seq_,               \* RecordCache::cur_seq_
  queue_,                 \* RecordCache::queue_ : the set of RecordWithSeq it holds
  pushed,                 \* history: every record pushed, in arrival order
  emitted,                \* history: non-null Pop results, then PopAll results
  cache_op,               \* history: the last operation and what it returned
  late_push,              \* history: a record arrived that is not later than an emitted one
  skewed_push,            \* history: a record arrived at or below the watermark
  \* ---- CallChainRoot (callchain.cpp) ----
  root,                   \* CallChainRoot: [children_period, children (node ids)]
  nodes,                  \* the CallChainNode objects, by id: [chain, period,
                          \*   children_period, children (node ids)]
  check_failed,           \* CHECK_GT(match_count, 0u) failed in some AddCallChain
  descents,               \* history: nodes visited by the loop of the last AddCallChain
  num_added,              \* history: number of AddCallChain calls
  added_period,           \* history: symbol-name sequence -> sum of the periods added
  chain_op,               \* history: the last operation on the tree; SortByPeriod
                          \*   keeps the tree it was called on
  \* ---- record codec (record.cpp) ----
  codec_attr,             \* the perf_event_attr that governs the records
  codec_record,           \* the Record object at hand, or NoRecord
  codec_buf,              \* the bytes at hand
  codec_src,              \* history: the record codec_buf was made from by
                          \*   BinaryFormat, or NoRecord
  codec_phase,            \* "empty", "record", "bytes", "aborted", "undefined"
  codec_origin,           \* history: "Create" or "kernel"
  codec_encodes,          \* history: number of BinaryFormat calls
  drained,                \* history: the last buffer drained by
                          \*   ReadMmapEventDataForFd and what came of it
  \* ---- EventSelectionSet (event_selection_set.cpp) ----
  for_stat_cmd_,          \* the set serves the stat command
  groups_,                \* the groups: sequences of EventSelection
  event_files,            \* the EventFd objects ever created, by id
  processes_, threads_,   \* the targets
  mmap_pages_, loop_,     \* loop_: the IOEventLoop is set
  online_cpus_,           \* the cpus seen online by the last scan
  monitored_cpus_,
  machine,                \* what the kernel of the machine supports
  kernel_online,          \* the cpus online now
  set_phase,              \* "setup", "opened", "mapped", "polling", "monitoring",
                          \*   "failed", "undefined"
  set_op,                 \* history: the last operation on the set and its result
  pre_union,              \* history: groups_ just before the last UnionSampleType
  scans,                  \* history: hotplug scans so far
  set_log,                \* history: the calls the last operation on the set made
                          \*   on event files and callbacks, in order
  \* ---- IOEventLoop (IOEventLoop.cpp) ----
  ebase_,                 \* "nullptr" or "base"
  has_error_,             \* IOEventLoop::has_error_
  events_,                \* the IOEvents registered: [kind, persist, callback]
  event_break,            \* the event_base's flag set by event_base_loopbreak
  loop_phase,             \* "idle", "dispatching", "returned", "crashed"
  loop_result,            \* what the last RunLoop returned, FALSE before the first
  count,                  \* the counter of each event's callback
  invoked,                \* history: invocations of each event's callback
  loop_hist,              \* history: [runs, failed_run (the run in which a callback
                          \*   first returned false, 0 for none), dispatch_failed (in
                          \*   the last run), last (operation)]
  \* ---- DsoEntry (dso.cpp) ----
  symbols,                \* DsoEntry::symbols: the SymbolEntry objects [name, addr, len]
  found,                  \* history: the last FindSymbol call and its result
  \* ---- SampleTree (sample_tree.h) ----
  process_tree_,          \* pid -> ProcessEntry
  kernel_map_tree_,       \* the kernel MapEntry objects
  user_map_tree_,         \* the user MapEntry objects
  unknown_maps_,          \* pid -> the unknown MapEntry of the process
  sample_tree_,           \* the SampleEntry objects
  sorted_sample_tree_,    \* the SampleEntry copies, as VisitAllSamples sorted them
  total_samples_, total_period_,
  added,                  \* history: the AddSample calls, each with the map it found
  callbacks               \* history: the entries the last VisitAllSamples passed to
                          \*   its callback, in order

cacheVars == <<has_timestamp_, min_cache_size_, min_time_diff_in_ns_, last_time_,
               cur_seq_, queue_, pushed, emitted, cache_op, late_push, skewed_push>>

chainVars == <<root, nodes, check_failed, descents, num_added, added_period, chain_op>>

codecVars == <<codec_attr, codec_record, codec_buf, codec_src, codec_phase,
               codec_origin, codec_encodes, drained>>

setVars == <<for_stat_cmd_, groups_, event_files, processes_, threads_, mmap_pages_,
             loop_, online_cpus_, monitored_cpus_, machine, kernel_online, set_phase,
             set_op, pre_union, scans, set_log>>

loopVars == <<ebase_, has_error_, events_, event_break, loop_phase, loop_result,
              count, invoked, loop_hist>>

dsoVars == <<symbols, found>>

treeVars == <<process_tree_, kernel_map_tree_, user_map_tree_, unknown_maps_,
              sample_tree_, sorted_sample_tree_, total_samples_, total_period_,
              added, callbacks>>

reportVars == <<dsoVars, treeVars>>

vars == <<cacheVars, chainVars, codecVars, setVars, loopVars, reportVars>>

\* What an operation of one component leaves alone: the other components.
cacheOthers == <<chainVars, codecVars, setVars, loopVars, reportVars>>
chainOthers == <<cacheVars, codecVars, setVars, loopVars, reportVars>>
codecOthers == <<cacheVars, chainVars, setVars, loopVars, reportVars>>
setOthers == <<cacheVars, chainVars, codecVars, loopVars, reportVars>>
loopOthers == <<cacheVars, chainVars, codecVars, setVars, reportVars>>
dsoOthers == <<cacheVars, chainVars, codecVars, setVars, loopVars, treeVars>>
treeOthers == <<cacheVars, chainVars, codecVars, setVars, loopVars, dsoVars>>

(***************************************************************************)
(* Helpers on sequences.                                                   *)
(***************************************************************************)
Max(a, b) == IF a >= b THEN a ELSE b

SeqOfLen(S, n) == [1..n -> S]

(***************************************************************************)
(*                              RecordCache                                *)
(***************************************************************************)
\* A DsoEntry without symbols and a SampleTree as constructed
\* (sample_tree.h:53-60).
DsoIdle == symbols = {} /\ found = [op |-> "new"]

SampleTreeIdle ==
  /\ process_tree_ = <<>> /\ kernel_map_tree_ = {} /\ user_map_tree_ = {}
  /\ unknown_maps_ = <<>> /\ sample_tree_ = {} /\ sorted_sample_tree_ = {}
  /\ total_samples_ = 0 /\ total_period_ = 0
  /\ added = <<>> /\ callbacks = <<>>

ReportIdle == DsoIdle /\ SampleTreeIdle

\* The call-chain tree as constructed and never used.
ChainIdle ==
  /\ root = [children_period |-> 0, children |-> <<>>]
  /\ nodes = <<>>
  /\ check_failed = FALSE
  /\ descents = 0
  /\ num_added = 0
  /\ added_period = <<>>
  /\ chain_op = [op |-> "new"]

\* No record, where a record may be.
NoRecord == [type |-> "none"]

\* The codec with nothing to encode or decode.
CodecIdle ==
  /\ codec_attr = [sample_id_all |-> FALSE, sample_type |-> {},
                   sample_regs_user |-> {0, 1}]
  /\ codec_record = NoRecord
  /\ codec_src = NoRecord
  /\ codec_buf = <<>>
  /\ codec_phase = "empty"
  /\ codec_origin = "none"
  /\ codec_encodes = 0
  /\ drained = [op |-> "new"]

\* The selection set as constructed and never used.
SetIdle ==
  /\ for_stat_cmd_ = FALSE
  /\ machine = [unsupported |-> {}, branch_sampling |-> TRUE, dwarf_sampling |-> TRUE,
                inplace_sampler |-> TRUE, mmap_limit |-> 4, refuses |-> {},
                online |-> {}]
  /\ kernel_online = {0}
  /\ processes_ = {} /\ threads_ = {}
  /\ groups_ = <<>> /\ event_files = <<>>
  /\ mmap_pages_ = 0 /\ loop_ = FALSE
  /\ online_cpus_ = <<>> /\ monitored_cpus_ = {}
  /\ set_phase = "setup" /\ set_op = [op |-> "new"] /\ pre_union = <<>>
  /\ scans = 0 /\ set_log = <<>>

\* IOEventLoop::IOEventLoop (IOEventLoop.cpp:39), and nothing done with it.
LoopIdle ==
  /\ ebase_ = "nullptr"
  /\ has_error_ = FALSE
  /\ events_ = <<>>
  /\ event_break = FALSE
  /\ loop_phase = "idle"
  /\ loop_result = FALSE
  /\ count = <<>>
  /\ invoked = <<>>
  /\ loop_hist = [runs |-> 0, failed_run |-> 0, dispatch_failed |-> FALSE,
                  last |-> "new"]

\* Record types, by the names RecordTypeToString gives them (record.cpp:32-49).
PERF_RECORD_MMAP == "mmap"
PERF_RECORD_COMM == "comm"
PERF_RECORD_SAMPLE == "sample"

\* Bounds of the cache model.
MaxPush == 3            \* records pushed in one run
MaxScenarioPush == 4    \* records pushed in one run over the scenario's records
MaxVec == 2             \* records in one Push(vector) call
MaxMinCacheSize == 2    \* largest min_cache_size the constructor is given

CacheTimeDiffs == {0, 50}

\* A record as the cache sees it: its type, the time of its sample_id block
\* (non-sample records) and its own time_data (sample records).  SampleId() zeroes
\* the block (record.cpp:83), and a sample record never fills it.
CacheRecord(type, time) ==
  IF type = PERF_RECORD_SAMPLE
    THEN [type |-> type, sample_id_time |-> 0, time_data_time |-> time]
    ELSE [type |-> type, sample_id_time |-> time, time_data_time |-> 0]

\* The records pushed: sample and non-sample records at two timestamps.
CacheRecords ==
  {CacheRecord(PERF_RECORD_MMAP, 100), CacheRecord(PERF_RECORD_COMM, 100),
   CacheRecord(PERF_RECORD_SAMPLE, 100), CacheRecord(PERF_RECORD_MMAP, 150),
   CacheRecord(PERF_RECORD_SAMPLE, 150)}

\* Record::Timestamp (record.cpp:199) and its override SampleRecord::Timestamp
\* (record.cpp:633).
Timestamp(r) ==
  IF r.type = PERF_RECORD_SAMPLE THEN r.time_data_time ELSE r.sample_id_time

\* Mutants of IsHappensBefore.
IsHappensBefore_IgnoresSampleness(a, other) ==
  IF Timestamp(a.record) # Timestamp(other.record)
    THEN Timestamp(a.record) < Timestamp(other.record)
    ELSE a.seq < other.seq

IsHappensBefore_SeqOnly(a, other) == a.seq < other.seq

\* RecordCache::RecordWithSeq::IsHappensBefore (record.cpp:889-907).
IsHappensBefore(a, other) ==
  LET is_sample == (a.record.type = PERF_RECORD_SAMPLE)
      is_other_sample == (other.record.type = PERF_RECORD_SAMPLE)
      time == Timestamp(a.record)
      other_time == Timestamp(other.record)
  IN  IF time # other_time THEN time < other_time
      ELSE IF is_sample # is_other_sample THEN ~is_sample
      ELSE a.seq < other.seq

\* RecordComparator (record.cpp:909-912) makes the priority queue's top() the
\* element that happens before every other one.
QueueTop(q) == CHOOSE x \in q : \A y \in q \ {x} : IsHappensBefore(x, y)

\* RecordCache::CreateRecordWithSeq (record.cpp:961-966): the record with the
\* next sequence number; the caller advances cur_seq_.
CreateRecordWithSeq(seq, r) == [seq |-> seq, record |-> r]

\* The elements Push(vector) adds (record.cpp:932-936).
RECURSIVE PushAllToQueue(_, _, _)
PushAllToQueue(q, seq, records) ==
  IF records = <<>> THEN q
  ELSE PushAllToQueue(q \cup {CreateRecordWithSeq(seq, Head(records))}, seq + 1,
                      Tail(records))

\* Mutant of DrainQueue: the loop ends with one record left in the queue.
RECURSIVE DrainQueue_OneShort(_)
DrainQueue_OneShort(q) ==
  IF Cardinality(q) <= 1 THEN <<>>
  ELSE LET t == CHOOSE x \in q : \A y \in q \ {x} : IsHappensBefore(x, y)
       IN  <<t.record>> \o DrainQueue_OneShort(q \ {t})

\* The loop of RecordCache::PopAll (record.cpp:952-959): top(), pop(), until empty.
RECURSIVE DrainQueue(_)
DrainQueue(q) ==
  IF q = {} THEN <<>>
  ELSE LET t == QueueTop(q) IN <<t.record>> \o DrainQueue(q \ {t})

\* Mutant of the last_time_ update of Push: the watermark forgets the maximum.
PushLastTime_Overwrite(has_ts, last, r) == IF has_ts THEN Timestamp(r) ELSE last

\* last_time_ after Push(record) (record.cpp:926-928).
PushLastTime(has_ts, last, r) == IF has_ts THEN Max(last, Timestamp(r)) ELSE last

\* Mutant of the Pop test: the cache-size floor is not checked.
PopAllowed_NoFloor(q, has_ts, min_size, min_diff, last) ==
  q # {} /\ (has_ts => Timestamp(QueueTop(q).record) + min_diff <= last)

\* Mutant of the Pop test: the watermark is not checked.
PopAllowed_NoWatermark(q, has_ts, min_size, min_diff, last) ==
  Cardinality(q) >= min_size

\* The two tests of RecordCache::Pop (record.cpp:939-947): false means it
\* returns nullptr.
PopAllowed(q, has_ts, min_size, min_diff, last) ==
  /\ ~(Cardinality(q) < min_size)
  /\ ~(has_ts /\ Timestamp(QueueTop(q).record) + min_diff > last)

\* RecordCache::RecordCache (record.cpp:914-921).  min_cache_size is at least 1:
\* with 0 Pop would call top() on an empty queue.  Without timestamps
\* min_time_diff_in_ns is never read, so one value of it is enough.
CacheInit ==
  /\ has_timestamp_ \in BOOLEAN
  /\ min_cache_size_ \in 1..MaxMinCacheSize
  /\ min_time_diff_in_ns_ \in IF has_timestamp_ THEN CacheTimeDiffs ELSE {0}
  /\ last_time_ = 0
  /\ cur_seq_ = 0
  /\ queue_ = {}
  /\ pushed = <<>>
  /\ emitted = <<>>
  /\ cache_op = [op |-> "new"]
  /\ late_push = FALSE
  /\ skewed_push = FALSE

CacheOpen == cache_op.op # "PopAll"

\* A pushed record is late when a record with the same or a later timestamp has
\* already left the cache.
IsLate(record) ==
  \E i \in 1..Len(emitted) : Timestamp(record) <= Timestamp(emitted[i])

\* A pushed record is skewed when it arrives at or below the watermark
\* last_time_ - min_time_diff_in_ns_, the bound under which Pop lets records go.
IsSkewed(record) == Timestamp(record) + min_time_diff_in_ns_ <= last_time_

\* RecordCache::Push(std::unique_ptr<Record>) (record.cpp:925-930).
Push(record, limit) ==
  /\ CacheOpen
  /\ Len(pushed) < limit
  /\ last_time_' = PushLastTime(has_timestamp_, last_time_, record)
  /\ queue_' = queue_ \cup {CreateRecordWithSeq(cur_seq_, record)}
  /\ cur_seq_' = cur_seq_ + 1
  /\ pushed' = Append(pushed, record)
  /\ cache_op' = [op |-> "Push"]
  /\ late_push' = (late_push \/ IsLate(record))
  /\ skewed_push' = (skewed_push \/ IsSkewed(record))
  /\ UNCHANGED <<has_timestamp_, min_cache_size_, min_time_diff_in_ns_, emitted>>
  /\ UNCHANGED cacheOthers

\* RecordCache::Push(std::vector<std::unique_ptr<Record>>) (record.cpp:932-936).
PushVector(records, limit) ==
  /\ CacheOpen
  /\ Len(pushed) + Len(records) <= limit
  /\ queue_' = PushAllToQueue(queue_, cur_seq_, records)
  /\ cur_seq_' = cur_seq_ + Len(records)
  /\ pushed' = pushed \o records
  /\ cache_op' = [op |-> "Push"]
  /\ late_push' = (late_push \/ \E i \in 1..Len(records) : IsLate(records[i]))
  /\ skewed_push' = (skewed_push \/ \E i \in 1..Len(records) : IsSkewed(records[i]))
  /\ UNCHANGED <<has_timestamp_, min_cache_size_, min_time_diff_in_ns_, last_time_,
                 emitted>>
  /\ UNCHANGED cacheOthers

\* RecordCache::Pop (record.cpp:938-950).
Pop ==
  /\ CacheOpen
  /\ IF PopAllowed(queue_, has_timestamp_, min_cache_size_, min_time_diff_in_ns_,
                   last_time_)
       THEN LET t == QueueTop(queue_) IN
            /\ queue_' = queue_ \ {t}
            /\ emitted' = Append(emitted, t.record)
            /\ cache_op' = [op |-> "Pop", before |-> queue_, result |-> <<t.record>>]
       ELSE /\ UNCHANGED <<queue_, emitted>>
            /\ cache_op' = [op |-> "Pop", before |-> queue_, result |-> <<>>]
  /\ UNCHANGED <<has_timestamp_, min_cache_size_, min_time_diff_in_ns_, last_time_,
                 cur_seq_, pushed, late_push, skewed_push>>
  /\ UNCHANGED cacheOthers

\* RecordCache::PopAll (record.cpp:952-959), kept in the history as op.
PopAllAs(op) ==
  /\ CacheOpen
  /\ LET result == DrainQueue(queue_) IN
     /\ queue_' = {}
     /\ emitted' = emitted \o result
     /\ cache_op' = [op |-> op, before |-> queue_, result |-> result]
  /\ UNCHANGED <<has_timestamp_, min_cache_size_, min_time_diff_in_ns_, last_time_,
                 cur_seq_, pushed, late_push, skewed_push>>
  /\ UNCHANGED cacheOthers

\* The last PopAll of a run, the one of ~RecordCache (record.cpp:923) included.
PopAll == PopAllAs("PopAll")

\* A PopAll after which the cache is used again.
PopAllAndGoOn == queue_ # {} /\ PopAllAs("PopAll, then go on")

CacheNext ==
  \/ \E r \in CacheRecords : Push(r, MaxPush)
  \/ \E n \in 1..MaxVec : \E rs \in SeqOfLen(CacheRecords, n) : PushVector(rs, MaxPush)
  \/ Pop
  \/ PopAll

InitCache == CacheInit /\ ChainIdle /\ CodecIdle /\ SetIdle /\ LoopIdle /\ ReportIdle

SpecCache == InitCache /\ [][CacheNext]_vars

\* The cache with any interleaving of its four operations.
CacheReuseNext ==
  \/ \E r \in CacheRecords : Push(r, MaxPush)
  \/ \E n \in 1..MaxVec : \E rs \in SeqOfLen(CacheRecords, n) : PushVector(rs, MaxPush)
  \/ Pop
  \/ PopAllAndGoOn
  \/ PopAll

SpecCacheReuse == InitCache /\ [][CacheReuseNext]_vars

\* The same cache fed with the records of the drain scenario of spec.md section 8
\* (Mmap@100, Sample@100, Comm@100, Sample@150), in any order and number.
ScenarioRecords ==
  {CacheRecord(PERF_RECORD_MMAP, 100), CacheRecord(PERF_RECORD_SAMPLE, 100),
   CacheRecord(PERF_RECORD_COMM, 100), CacheRecord(PERF_RECORD_SAMPLE, 150)}

ScenarioNext ==
  \/ \E r \in ScenarioRecords : Push(r, MaxScenarioPush)
  \/ \E n \in 1..MaxVec : \E rs \in SeqOfLen(ScenarioRecords, n) :
        PushVector(rs, MaxScenarioPush)
  \/ Pop
  \/ PopAll

SpecCacheScenario == InitCache /\ [][ScenarioNext]_vars

(***************************************************************************)
(* Properties of the RecordCache.                                          *)
(***************************************************************************)
IsSample(r) == r.type = PERF_RECORD_SAMPLE

\* A sequence of records is in emission order: timestamps never decrease, and
\* in an adjacent pair with equal timestamps a sample never precedes a non-sample.
InEmissionOrder(s) ==
  \A i \in 1..(Len(s) - 1) :
    /\ Timestamp(s[i]) <= Timestamp(s[i + 1])
    /\ (Timestamp(s[i]) = Timestamp(s[i + 1]) /\ IsSample(s[i]) # IsSample(s[i + 1]))
         => ~IsSample(s[i])

\* The total order of the specification on cached records: smaller timestamp,
\* then non-sample before sample, then arrival sequence number.
OrderedBefore(x, y) ==
  \/ Timestamp(x.record) < Timestamp(y.record)
  \/ /\ Timestamp(x.record) = Timestamp(y.record)
     /\ ~IsSample(x.record) /\ IsSample(y.record)
  \/ /\ Timestamp(x.record) = Timestamp(y.record)
     /\ IsSample(x.record) = IsSample(y.record)
     /\ x.seq < y.seq

\* The place of x when the set q is listed in that order.
Rank(x, q) == 1 + Cardinality({y \in q : OrderedBefore(y, x)})

RECURSIVE MaxTimestamp(_)
MaxTimestamp(s) == IF s = <<>> THEN 0 ELSE Max(Timestamp(Head(s)), MaxTimestamp(Tail(s)))

\* C1 as stated: once PopAll has ended the run, everything emitted (the non-null
\* Pop results in call order, then the PopAll result) is in emission order,
\* whatever was pushed and whenever.
C1_EmittedInOrder == (cache_op.op = "PopAll") => InEmissionOrder(emitted)

\* C1 amended: the emitted sequence is in emission order at every moment, provided
\* no record was pushed with a timestamp at or below that of a record already
\* emitted; and with has_timestamp no such record exists as long as every record
\* arrives above the watermark last_time_ - min_time_diff_in_ns_.
C1_EmittedInOrderUnlessLate ==
  /\ (~late_push) => InEmissionOrder(emitted)
  /\ (has_timestamp_ /\ ~skewed_push) => ~late_push

\* C1 witness: a run ended by PopAll, without late pushes, in which Pop emitted
\* records before PopAll emitted the rest, with a non-sample and a sample at the
\* same timestamp next to each other.
C1_Witness ==
  /\ cache_op.op = "PopAll" /\ ~late_push /\ ~skewed_push /\ has_timestamp_
  /\ Len(cache_op.result) >= 1
  /\ Len(emitted) > Len(cache_op.result) + 1
  /\ \E i \in 1..(Len(emitted) - 1) :
       /\ Timestamp(emitted[i]) = Timestamp(emitted[i + 1])
       /\ ~IsSample(emitted[i]) /\ IsSample(emitted[i + 1])

ScenarioPushes ==
  <<CacheRecord(PERF_RECORD_MMAP, 100), CacheRecord(PERF_RECORD_SAMPLE, 100),
    CacheRecord(PERF_RECORD_COMM, 100), CacheRecord(PERF_RECORD_SAMPLE, 150)>>

ScenarioDrained ==
  <<CacheRecord(PERF_RECORD_MMAP, 100), CacheRecord(PERF_RECORD_COMM, 100),
    CacheRecord(PERF_RECORD_SAMPLE, 100), CacheRecord(PERF_RECORD_SAMPLE, 150)>>

InScenario ==
  /\ cache_op.op = "PopAll"
  /\ has_timestamp_ /\ min_cache_size_ = 2 /\ min_time_diff_in_ns_ = 50
  /\ pushed = ScenarioPushes

\* C8: PopAll returns every record that was in the cache, each at its rank in
\* the total order (timestamp, non-sample before sample, arrival sequence) and
\* leaves the cache empty; the four pushes of the scenario are drained as
\* Mmap@100, Comm@100, Sample@100, Sample@150.
C8_PopAllSorted ==
  (cache_op.op = "PopAll") =>
    /\ Len(cache_op.result) = Cardinality(cache_op.before)
    /\ \A x \in cache_op.before : cache_op.result[Rank(x, cache_op.before)] = x.record
    /\ queue_ = {}
    /\ InScenario => emitted = ScenarioDrained

\* C8 witness: the scenario was pushed and drained by PopAll alone.
C8_Witness == InScenario /\ cache_op.result = ScenarioDrained

\* C9 as stated: without timestamps the cache is a FIFO: what has been emitted
\* is the beginning of what was pushed, in the same order.
C9_NoTimestampFifo ==
  (~has_timestamp_) =>
    /\ Len(emitted) <= Len(pushed)
    /\ \A i \in 1..Len(emitted) : emitted[i] = pushed[i]

\* C10 as stated: with timestamps, Pop returns the least cached record exactly
\* when the cache holds at least min_cache_size records and that record's
\* timestamp plus min_time_diff_in_ns is at most the largest timestamp pushed so
\* far (by either Push overload); otherwise it returns null and changes nothing.
C10_PopAtWatermark ==
  (has_timestamp_ /\ cache_op.op = "Pop") =>
    LET q == cache_op.before
        due == /\ Cardinality(q) >= min_cache_size_
               /\ \E x \in q : /\ Rank(x, q) = 1
                               /\ Timestamp(x.record) + min_time_diff_in_ns_
                                    <= MaxTimestamp(pushed)
    IN  IF due
          THEN \E x \in q : /\ Rank(x, q) = 1
                            /\ cache_op.result = <<x.record>>
                            /\ queue_ = q \ {x}
          ELSE cache_op.result = <<>> /\ queue_ = q

(***************************************************************************)
(*                             CallChainRoot                               *)
(***************************************************************************)
\* Bounds of the call-chain model.
MaxAdds == 3            \* AddCallChain calls in one run
MaxChainLen == 2        \* entries in one added call chain

\* The SampleEntry objects call chains are made of: a symbol name and an ip.
SampleEntries == {[name |-> "f", ip |-> 1], [name |-> "g", ip |-> 2]}
Periods == {5, 10}

CallChains == UNION {SeqOfLen(SampleEntries, n) : n \in 1..MaxChainLen}

Names(chain) == [i \in 1..Len(chain) |-> chain[i].name]

\* Mutant of MatchSample: entries match when name and ip are the same.
MatchSample_ByIp(sample1, sample2) == sample1 = sample2

\* MatchSample (callchain.cpp:23-25).
MatchSample(sample1, sample2) == sample1.name = sample2.name

\* The loop of MatchSamples (callchain.cpp:27-36), from its counter i on.
RECURSIVE MatchSamplesFrom(_, _, _, _)
MatchSamplesFrom(samples1, samples2, samples2_start, i) ==
  IF /\ i < Len(samples1)
     /\ samples2_start + i < Len(samples2)
     /\ MatchSample(samples1[i + 1], samples2[samples2_start + i + 1])
    THEN MatchSamplesFrom(samples1, samples2, samples2_start, i + 1)
    ELSE i

\* MatchSamples (callchain.cpp:27-36); samples2_start counts from 0.
MatchSamples(samples1, samples2, samples2_start) ==
  MatchSamplesFrom(samples1, samples2, samples2_start, 0)

\* Mutant of SelectMatchingNode: the first node is taken, whatever it holds.
SelectMatchingNode_First(heap, ids, sample) == IF ids = <<>> THEN 0 ELSE ids[1]

\* SelectMatchingNode (callchain.cpp:38-46): the first node of ids whose first
\* chain entry matches; 0 stands for nullptr.
SelectMatchingNode(heap, ids, sample) ==
  LET hits == {i \in 1..Len(ids) : MatchSample(heap[ids[i]].chain[1], sample)}
  IN  IF hits = {} THEN 0
      ELSE ids[CHOOSE i \in hits : \A j \in hits : i <= j]

\* Mutant of AllocateNode: the period is left out.
AllocateNode_NoPeriod(chain, chain_start, period, children_period) ==
  [chain |-> SubSeq(chain, chain_start + 1, Len(chain)),
   period |-> 0,
   children_period |-> children_period,
   children |-> <<>>]

\* AllocateNode (callchain.cpp:48-58); chain_start counts from 0.
AllocateNode(chain, chain_start, period, children_period) ==
  [chain |-> SubSeq(chain, chain_start + 1, Len(chain)),
   period |-> period,
   children_period |-> children_period,
   children |-> <<>>]

\* Mutant of SplitNode: the parent keeps its period.
SplitNode_KeepsPeriod(heap, parent, parent_length) ==
  LET child == [AllocateNode(heap[parent].chain, parent_length, heap[parent].period,
                             heap[parent].children_period)
                  EXCEPT !.children = heap[parent].children]
      id == Len(heap) + 1
  IN  Append([heap EXCEPT ![parent] =
                [chain |-> SubSeq(heap[parent].chain, 1, parent_length),
                 period |-> heap[parent].period,
                 children_period |-> child.period + child.children_period,
                 children |-> <<id>>]],
             child)

\* Mutant of SplitNode: the parent keeps its old children_period.
SplitNode_KeepsChildrenPeriod(heap, parent, parent_length) ==
  LET child == [AllocateNode(heap[parent].chain, parent_length, heap[parent].period,
                             heap[parent].children_period)
                  EXCEPT !.children = heap[parent].children]
      id == Len(heap) + 1
  IN  Append([heap EXCEPT ![parent] =
                [chain |-> SubSeq(heap[parent].chain, 1, parent_length),
                 period |-> 0,
                 children_period |-> heap[parent].children_period,
                 children |-> <<id>>]],
             child)

\* Mutant of SplitNode: the period stays with the prefix and the tail starts at 0.
SplitNode_PeriodStaysAbove(heap, parent, parent_length) ==
  LET child == [AllocateNode(heap[parent].chain, parent_length, 0,
                             heap[parent].children_period)
                  EXCEPT !.children = heap[parent].children]
      id == Len(heap) + 1
  IN  Append([heap EXCEPT ![parent] =
                [chain |-> SubSeq(heap[parent].chain, 1, parent_length),
                 period |-> heap[parent].period,
                 children_period |-> child.period + child.children_period,
                 children |-> <<id>>]],
             child)

\* SplitNode (callchain.cpp:60-69): the heap after the split; the new child gets
\* the next free id.
SplitNode(heap, parent, parent_length) ==
  LET child == [AllocateNode(heap[parent].chain, parent_length, heap[parent].period,
                             heap[parent].children_period)
                  EXCEPT !.children = heap[parent].children]
      id == Len(heap) + 1
  IN  Append([heap EXCEPT ![parent] =
                [chain |-> SubSeq(heap[parent].chain, 1, parent_length),
                 period |-> 0,
                 children_period |-> child.period + child.children_period,
                 children |-> <<id>>]],
             child)

\* The while loop of AddCallChain (callchain.cpp:80-104), entered at node p with
\* callchain_pos entries of the call chain consumed.  A tree is
\* [root, nodes, check_failed, descents].
RECURSIVE AddCallChainLoop(_, _, _, _, _)
AddCallChainLoop(tree, p, callchain_pos, callchain, period) ==
  LET match_count == MatchSamples(tree.nodes[p].chain, callchain, callchain_pos)
      pos == callchain_pos + match_count
      split == match_count < Len(tree.nodes[p].chain)
      heap1 == IF split THEN SplitNode(tree.nodes, p, match_count) ELSE tree.nodes
      find_child == ~split
      visited == [tree EXCEPT !.descents = @ + 1]
  IN  IF ~(match_count > 0)
        THEN [visited EXCEPT !.check_failed = TRUE]
      ELSE IF pos = Len(callchain)
        THEN [visited EXCEPT !.nodes = [heap1 EXCEPT ![p].period = @ + period]]
      ELSE LET heap2 == [heap1 EXCEPT ![p].children_period = @ + period]
               np == IF find_child
                       THEN SelectMatchingNode(heap2, heap2[p].children,
                                               callchain[pos + 1])
                       ELSE 0
           IN  IF np # 0
                 THEN AddCallChainLoop([visited EXCEPT !.nodes = heap2], np, pos,
                                       callchain, period)
                 ELSE LET id == Len(heap2) + 1
                          new_node == AllocateNode(callchain, pos, period, 0)
                      IN  [visited EXCEPT !.nodes =
                             Append([heap2 EXCEPT ![p].children = Append(@, id)],
                                    new_node)]

\* CallChainRoot::AddCallChain (callchain.cpp:71-105).
AddCallChain(tree, callchain, period) ==
  LET root1 == [tree.root EXCEPT !.children_period = @ + period]
      p == SelectMatchingNode(tree.nodes, root1.children, callchain[1])
      start == [tree EXCEPT !.root = root1, !.descents = 0]
  IN  IF p = 0
        THEN LET id == Len(tree.nodes) + 1
             IN  [start EXCEPT !.root.children = Append(@, id),
                               !.nodes = Append(@, AllocateNode(callchain, 0, period, 0))]
        ELSE AddCallChainLoop(start, p, 0, callchain, period)

ChainTree == [root |-> root, nodes |-> nodes, check_failed |-> check_failed,
              descents |-> descents]

\* The sum of the periods added so far for one symbol-name sequence.
AddedPeriod(names) == IF names \in DOMAIN added_period THEN added_period[names] ELSE 0

MaxTreeAdds == 3        \* AddCallChain calls in one run on the jitted chains
MaxOrderAdds == 3       \* AddCallChain calls in one run whose order is varied

\* What one call of AddCallChain does to the tree; CHECK_GT aborts the process
\* when it fails.
AddCallChainStep(callchain, period, limit) ==
  /\ ~check_failed
  /\ num_added < limit
  /\ LET t == AddCallChain(ChainTree, callchain, period) IN
     /\ root' = t.root
     /\ nodes' = t.nodes
     /\ check_failed' = t.check_failed
     /\ descents' = t.descents
  /\ num_added' = num_added + 1
  /\ added_period' = [n \in DOMAIN added_period \cup {Names(callchain)} |->
                        IF n = Names(callchain) THEN AddedPeriod(n) + period
                        ELSE added_period[n]]
  /\ UNCHANGED chainOthers

\* One call of AddCallChain on the root.
AddCallChainCall(callchain, period, limit) ==
  /\ AddCallChainStep(callchain, period, limit)
  /\ chain_op' = [op |-> "AddCallChain"]

\* One call of AddCallChain on the root, the call chain kept in the history.
AddJitCallChain(callchain, period) ==
  /\ AddCallChainStep(callchain, period, MaxTreeAdds)
  /\ chain_op' = [op |-> "AddCallChain", callchain |-> callchain, known |->
                    Names(callchain) \in DOMAIN added_period]

ChainNext ==
  \E callchain \in CallChains : \E period \in Periods :
    AddCallChainCall(callchain, period, MaxAdds)

\* The call stacks of one profiled program; the chains added are their prefixes.
MaxStackAdds == 3       \* AddCallChain calls in one run on the stacks
StackF == [name |-> "f", ip |-> 1]
StackG == [name |-> "g", ip |-> 2]
StackH == [name |-> "h", ip |-> 3]
StackK == [name |-> "k", ip |-> 4]
Stacks == {<<StackF, StackG, StackH>>, <<StackF, StackG, StackK>>, <<StackF, StackH>>,
           <<StackG>>}
StackChains == UNION {{SubSeq(stack, 1, n) : n \in 1..Len(stack)} : stack \in Stacks}

StackNext ==
  \E callchain \in StackChains : \E period \in Periods :
    AddCallChainCall(callchain, period, MaxStackAdds)

\* Mutant of CompareNodeByPeriod: the periods of the nodes alone are compared.
CompareNodeByPeriod_OwnPeriod(heap, n1, n2) == heap[n1].period > heap[n2].period

\* CompareNodeByPeriod (callchain.cpp:107-112).
CompareNodeByPeriod(heap, n1, n2) ==
  LET period1 == heap[n1].period + heap[n1].children_period
      period2 == heap[n2].period + heap[n2].children_period
  IN  period1 > period2

\* The orders of ids.
Orders(ids) ==
  {v \in SeqOfLen({ids[i] : i \in DOMAIN ids}, Len(ids)) :
     \A i, j \in DOMAIN v : i # j => v[i] # v[j]}

\* std::sort(v->begin(), v->end(), CompareNodeByPeriod) (callchain.cpp:120): the
\* orders it can leave, std::sort not being stable: no element is followed by one
\* that compares before it.
StdSort(heap, ids) ==
  {v \in Orders(ids) :
     \A i, j \in DOMAIN v : i < j => ~CompareNodeByPeriod(heap, v[j], v[i])}

\* The while loop of SortByPeriod (callchain.cpp:117-124) from its queue on; an
\* entry of the queue is the node whose children vector it points to, 0 for the
\* root.  The trees [root, nodes] the loop can end with.
RECURSIVE SortByPeriodLoop(_, _, _)
SortByPeriodLoop(r, heap, queue) ==
  IF queue = <<>> THEN {[root |-> r, nodes |-> heap]}
  ELSE LET n == Head(queue)
           v == IF n = 0 THEN r.children ELSE heap[n].children
       IN  UNION {SortByPeriodLoop(IF n = 0 THEN [r EXCEPT !.children = sorted] ELSE r,
                                   IF n = 0 THEN heap
                                   ELSE [heap EXCEPT ![n].children = sorted],
                                   Tail(queue) \o sorted) :
                    sorted \in StdSort(heap, v)}

\* CallChainRoot::SortByPeriod (callchain.cpp:114-125).
SortByPeriod(r, heap) == SortByPeriodLoop(r, heap, <<0>>)

\* One call of SortByPeriod on the root.
SortByPeriodCall ==
  /\ ~check_failed
  /\ num_added > 0
  /\ \E t \in SortByPeriod(root, nodes) :
       /\ root' = t.root
       /\ nodes' = t.nodes
  /\ chain_op' = [op |-> "SortByPeriod", root |-> root, nodes |-> nodes]
  /\ UNCHANGED <<check_failed, descents, num_added, added_period>>
  /\ UNCHANGED chainOthers

\* Call chains of jitted code: the symbol f is sampled at two ips.
JitF == [name |-> "f", ip |-> 1]
JitF2 == [name |-> "f", ip |-> 3]
JitG == [name |-> "g", ip |-> 2]
JitChains == {<<JitF>>, <<JitF2>>, <<JitG>>, <<JitF, JitG>>, <<JitF2, JitG>>, <<JitF2, JitF>>}

TreeNext ==
  \/ \E callchain \in JitChains : \E period \in Periods : AddJitCallChain(callchain, period)
  \/ SortByPeriodCall

\* The record cache as constructed and never used.
CacheIdle ==
  /\ has_timestamp_ = TRUE /\ min_cache_size_ = 1 /\ min_time_diff_in_ns_ = 0
  /\ last_time_ = 0 /\ cur_seq_ = 0 /\ queue_ = {}
  /\ pushed = <<>> /\ emitted = <<>> /\ cache_op = [op |-> "new"]
  /\ late_push = FALSE /\ skewed_push = FALSE

InitChain == ChainIdle /\ CacheIdle /\ CodecIdle /\ SetIdle /\ LoopIdle /\ ReportIdle

SpecChain == InitChain /\ [][ChainNext]_vars

SpecChainStacks == InitChain /\ [][StackNext]_vars

SpecChainTree == InitChain /\ [][TreeNext]_vars

\* The prefixes of the stacks are added, each call kept in the history.
DeepNext ==
  \E callchain \in StackChains : \E period \in Periods : AddJitCallChain(callchain, period)

SpecChainDeep == InitChain /\ [][DeepNext]_vars

\* The insertions made so far, in the order of the calls.
Insertions == IF chain_op.op = "AddCallChain, kept" THEN chain_op.insertions ELSE <<>>

\* One call of AddCallChain on the root, added to the insertions kept.
AddCallChainKept(callchain, period) ==
  /\ AddCallChainStep(callchain, period, MaxOrderAdds)
  /\ chain_op' = [op |-> "AddCallChain, kept",
                  insertions |-> Append(Insertions, <<callchain, period>>)]

\* The chains of a program with a jitted function: the prefixes of the stacks
\* that start at f, and a chain through f sampled at another ip.
OrderChains == (StackChains \ {<<StackG>>}) \cup {<<JitF2, StackG>>}

OrderNext ==
  \E callchain \in OrderChains : \E period \in Periods : AddCallChainKept(callchain, period)

SpecChainOrder == InitChain /\ [][OrderNext]_vars

(***************************************************************************)
(* Properties of the call-chain tree.                                      *)
(***************************************************************************)
RECURSIVE SumOverChildren(_, _)
SumOverChildren(heap, ids) ==
  IF ids = <<>> THEN 0
  ELSE heap[Head(ids)].period + heap[Head(ids)].children_period
         + SumOverChildren(heap, Tail(ids))

\* C2: every node's children_period is the sum of period + children_period over
\* its children, and so is the root's.
C2_ChildrenPeriodIsSum ==
  /\ root.children_period = SumOverChildren(nodes, root.children)
  /\ \A n \in 1..Len(nodes) :
       nodes[n].children_period = SumOverChildren(nodes, nodes[n].children)

\* C2 witness: a tree with a split node (period 0, children below it) that was
\* descended into by a later call, every node non-trivially accounted.
C2_Witness ==
  /\ num_added = MaxAdds /\ ~check_failed
  /\ descents >= 2
  /\ \E n \in 1..Len(nodes) :
       /\ Len(nodes[n].children) >= 2
       /\ nodes[n].children_period > 0
       /\ nodes[n].children_period = SumOverChildren(nodes, nodes[n].children)

(***************************************************************************)
(*                      Record codec (record.cpp)                          *)
(***************************************************************************)
\* Bounds of the codec model.
MaxNameLen == 8         \* bytes in a file name or comm string
MaxEncodes == 2         \* BinaryFormat calls in one run

PERF_RECORD_LOST == "lost"
PERF_RECORD_EXIT == "exit"
PERF_RECORD_FORK == "fork"
UNKNOWN_RECORD == "unknown(5)"
PERF_RECORD_BUILD_ID == "build_id"
PERF_RECORD_TRACING_DATA == "tracing_data"
SIMPLE_PERF_RECORD_KERNEL_SYMBOL == "kernel_symbol"

\* The value of header.type for each record type name of RecordTypeToString.
RecordTypeCode(type) ==
  CASE type = PERF_RECORD_MMAP -> 1
    [] type = PERF_RECORD_LOST -> 2
    [] type = PERF_RECORD_COMM -> 3
    [] type = PERF_RECORD_EXIT -> 4
    [] type = PERF_RECORD_FORK -> 7
    [] type = PERF_RECORD_SAMPLE -> 9
    [] type = PERF_RECORD_TRACING_DATA -> 66
    [] type = PERF_RECORD_BUILD_ID -> 67
    [] type = SIMPLE_PERF_RECORD_KERNEL_SYMBOL -> 32769
    [] OTHER -> 5

RecordTypeOfCode(code) ==
  CASE code = 1 -> PERF_RECORD_MMAP
    [] code = 2 -> PERF_RECORD_LOST
    [] code = 3 -> PERF_RECORD_COMM
    [] code = 4 -> PERF_RECORD_EXIT
    [] code = 7 -> PERF_RECORD_FORK
    [] code = 9 -> PERF_RECORD_SAMPLE
    [] OTHER -> UNKNOWN_RECORD

\* in_kernel ? PERF_RECORD_MISC_KERNEL : PERF_RECORD_MISC_USER (record.cpp:240-241).
MiscOf(in_kernel) == IF in_kernel THEN 1 ELSE 2

\* The bits of perf_event_attr.sample_type, a mask, as a set of bit names.
SampleIdBits == {"TID", "TIME", "ID", "STREAM_ID", "CPU", "IDENTIFIER"}
SampleOnlyMasks == {{}, {"IP", "ADDR", "PERIOD", "CALLCHAIN"},
                    {"RAW", "BRANCH_STACK", "REGS_USER", "STACK_USER"}}
SampleTypes == {s \cup e : s \in SUBSET SampleIdBits, e \in SampleOnlyMasks}

\* perf_event_attr as far as the codec reads it; sample_regs_user is the set of
\* the bits set in the register mask.
CodecAttrs == [sample_id_all : BOOLEAN, sample_type : SampleTypes,
               sample_regs_user : {{0, 1}}]

\* ---- bytes ----
Zeros(n) == [i \in 1..n |-> 0]

\* MoveToBinaryFormat of an n-byte unsigned value (record.cpp:65-69), little endian.
RECURSIVE ToBytes(_, _)
ToBytes(v, n) == IF n = 0 THEN <<>> ELSE <<v % 256>> \o ToBytes(v \div 256, n - 1)

\* The byte at offset p (from 0); a buffer as allocated is zero-filled.
ByteAt(buf, p) == IF p < Len(buf) THEN buf[p + 1] ELSE 0

\* MoveFromBinaryFormat of an n-byte unsigned value (record.cpp:58-63).
RECURSIVE FromBytes(_, _, _)
FromBytes(buf, p, n) ==
  IF n = 0 THEN 0 ELSE ByteAt(buf, p) + 256 * FromBytes(buf, p + 1, n - 1)

Align(value, alignment) == ((value + alignment - 1) \div alignment) * alignment

\* strlen(p).
RECURSIVE StrLen(_, _)
StrLen(buf, p) == IF ByteAt(buf, p) = 0 THEN 0 ELSE 1 + StrLen(buf, p + 1)

\* std::string = p: the bytes up to the first NUL.
CString(buf, p) == SubSeq(buf, p + 1, p + StrLen(buf, p))

\* strcpy(p, s.c_str()); p += Align(s.size() + 1, 8): the string, its NUL and the
\* untouched (zero) bytes up to the alignment.
PaddedString(s) == s \o Zeros(Align(Len(s) + 1, 8) - Len(s))

Opt(present, bytes) == IF present THEN bytes ELSE <<>>

\* RecordHeader::MoveToBinaryFormat (record.cpp:71-74): u32 type, u16 misc, u16 size.
HeaderBytes(r) == ToBytes(RecordTypeCode(r.type), 4) \o ToBytes(r.misc, 2) \o ToBytes(r.size, 2)

header_size == 8

\* ---- SampleId ----
\* SampleId::SampleId (record.cpp:83).
EmptySampleId ==
  [sample_id_all |-> FALSE, sample_type |-> {},
   tid_data |-> [pid |-> 0, tid |-> 0], time_data |-> [time |-> 0],
   id_data |-> [id |-> 0], stream_id_data |-> [stream_id |-> 0],
   cpu_data |-> [cpu |-> 0, res |-> 0]]

\* SampleId::Size (record.cpp:167-190).
SampleIdSize(sid) ==
  IF sid.sample_id_all
    THEN 8 * Cardinality(sid.sample_type \cap SampleIdBits)
    ELSE 0

\* SampleId::CreateContent (record.cpp:86-92): the sample id it leaves.
CreateContent(attr, event_id) ==
  [EmptySampleId EXCEPT !.sample_id_all = attr.sample_id_all,
                        !.sample_type = attr.sample_type,
                        !.id_data.id = event_id]

\* SampleId::WriteToBinaryFormat (record.cpp:124-142): the bytes it writes.
WriteToBinaryFormat(sid) ==
  IF sid.sample_id_all
    THEN Opt("TID" \in sid.sample_type,
             ToBytes(sid.tid_data.pid, 4) \o ToBytes(sid.tid_data.tid, 4))
         \o Opt("TIME" \in sid.sample_type, ToBytes(sid.time_data.time, 8))
         \o Opt("ID" \in sid.sample_type, ToBytes(sid.id_data.id, 8))
         \o Opt("STREAM_ID" \in sid.sample_type, ToBytes(sid.stream_id_data.stream_id, 8))
         \o Opt("CPU" \in sid.sample_type,
                ToBytes(sid.cpu_data.cpu, 4) \o ToBytes(sid.cpu_data.res, 4))
    ELSE <<>>

\* SampleId::ReadFromBinaryFormat (record.cpp:94-122) at offset p of buf:
\* [sid, p (where it stopped)].
ReadFromBinaryFormat(attr, buf, p) ==
  LET st == IF attr.sample_id_all THEN attr.sample_type ELSE {}
      Width(bit) == IF bit \in st THEN 8 ELSE 0
      p_time == p + Width("TID")
      p_id == p_time + Width("TIME")
      p_stream == p_id + Width("ID")
      p_cpu == p_stream + Width("STREAM_ID")
      p_identifier == p_cpu + Width("CPU")
      p_end == p_identifier + Width("IDENTIFIER")
      Field(bit, at, n) == IF bit \in st THEN FromBytes(buf, at, n) ELSE 0
  IN  [sid |->
         [sample_id_all |-> attr.sample_id_all,
          sample_type |-> attr.sample_type,
          tid_data |-> [pid |-> Field("TID", p, 4), tid |-> Field("TID", p + 4, 4)],
          time_data |-> [time |-> Field("TIME", p_time, 8)],
          id_data |-> [id |-> IF "IDENTIFIER" \in st
                                THEN FromBytes(buf, p_identifier, 8)
                                ELSE Field("ID", p_id, 8)],
          stream_id_data |-> [stream_id |-> Field("STREAM_ID", p_stream, 8)],
          cpu_data |-> [cpu |-> Field("CPU", p_cpu, 4),
                        res |-> Field("CPU", p_cpu + 4, 4)]],
       p |-> p_end]

\* The layout of a sample id block as the kernel writes it, which is the layout
\* ReadFromBinaryFormat parses (record.cpp:98-117).
KernelSampleIdBytes(sid) ==
  IF sid.sample_id_all
    THEN Opt("TID" \in sid.sample_type,
             ToBytes(sid.tid_data.pid, 4) \o ToBytes(sid.tid_data.tid, 4))
         \o Opt("TIME" \in sid.sample_type, ToBytes(sid.time_data.time, 8))
         \o Opt("ID" \in sid.sample_type, ToBytes(sid.id_data.id, 8))
         \o Opt("STREAM_ID" \in sid.sample_type, ToBytes(sid.stream_id_data.stream_id, 8))
         \o Opt("CPU" \in sid.sample_type,
                ToBytes(sid.cpu_data.cpu, 4) \o ToBytes(sid.cpu_data.res, 4))
         \o Opt("IDENTIFIER" \in sid.sample_type, ToBytes(sid.id_data.id, 8))
    ELSE <<>>

\* ---- records ----
\* Record::SetSize: header.size is a 16-bit field.
SetSize(r, size) == [r EXCEPT !.size = size % 65536]

NewRecord(type, misc, data, sample_id) ==
  [type |-> type, misc |-> misc, size |-> 0, data |-> data, sample_id |-> sample_id]

\* MmapRecord::Create (record.cpp:235-252).
MmapRecordCreate(attr, in_kernel, pid, tid, addr, len, pgoff, filename, event_id) ==
  LET sample_id == CreateContent(attr, event_id)
      record == NewRecord(PERF_RECORD_MMAP, MiscOf(in_kernel),
                          [pid |-> pid, tid |-> tid, addr |-> addr, len |-> len,
                           pgoff |-> pgoff, filename |-> filename],
                          sample_id)
  IN  SetSize(record, header_size + 32 + Align(Len(filename) + 1, 8)
                        + SampleIdSize(sample_id))

\* CommRecord::Create (record.cpp:318-330).
CommRecordCreate(attr, pid, tid, comm, event_id) ==
  LET sample_id == CreateContent(attr, event_id)
      record == NewRecord(PERF_RECORD_COMM, 0,
                          [pid |-> pid, tid |-> tid, comm |-> comm], sample_id)
  IN  SetSize(record, header_size + 8 + Align(Len(comm) + 1, 8)
                        + SampleIdSize(sample_id))

\* ForkRecord::Create (record.cpp:355-368).
ForkRecordCreate(attr, pid, tid, ppid, ptid, event_id) ==
  LET sample_id == CreateContent(attr, event_id)
      record == NewRecord(PERF_RECORD_FORK, 0,
                          [pid |-> pid, ppid |-> ppid, tid |-> tid, ptid |-> ptid,
                           time |-> 0],
                          sample_id)
  IN  SetSize(record, header_size + 24 + SampleIdSize(sample_id))

\* BuildId::Size(): a build id is 20 bytes.
BUILD_ID_SIZE == 20

\* BuildIdRecord::Create (record.cpp:662-677).
BuildIdRecordCreate(in_kernel, pid, build_id, filename) ==
  LET record == NewRecord(PERF_RECORD_BUILD_ID, MiscOf(in_kernel),
                          [pid |-> pid, build_id |-> build_id, filename |-> filename],
                          EmptySampleId)
  IN  SetSize(record, header_size + 4 + Align(Len(build_id), 8)
                        + Align(Len(filename) + 1, 64))

\* KernelSymbolRecord::Create (record.cpp:706-712).
KernelSymbolRecordCreate(kallsyms) ==
  LET r == NewRecord(SIMPLE_PERF_RECORD_KERNEL_SYMBOL, 0, [kallsyms |-> kallsyms],
                     EmptySampleId)
  IN  SetSize(r, header_size + 4 + Align(Len(kallsyms), 8))

\* TracingDataRecord::Create (record.cpp:821-828).
TracingDataRecordCreate(tracing_data) ==
  LET record == NewRecord(PERF_RECORD_TRACING_DATA, 0, [data |-> tracing_data],
                          EmptySampleId)
  IN  SetSize(record, header_size + 4 + Align(Len(tracing_data), 64))

\* What SampleRecord::BinaryFormat writes after the header (record.cpp:482-538).
SampleDataBytes(d) ==
  LET st == d.sample_type IN
  Opt("IDENTIFIER" \in st, ToBytes(d.id, 8))
  \o Opt("IP" \in st, ToBytes(d.ip, 8))
  \o Opt("TID" \in st, ToBytes(d.pid, 4) \o ToBytes(d.tid, 4))
  \o Opt("TIME" \in st, ToBytes(d.time, 8))
  \o Opt("ADDR" \in st, ToBytes(d.addr, 8))
  \o Opt("ID" \in st, ToBytes(d.id, 8))
  \o Opt("STREAM_ID" \in st, ToBytes(d.stream_id, 8))
  \o Opt("CPU" \in st, ToBytes(d.cpu, 4) \o ToBytes(d.res, 4))
  \o Opt("PERIOD" \in st, ToBytes(d.period, 8))
  \o Opt("CALLCHAIN" \in st,
         ToBytes(Len(d.ips), 8)
         \o [i \in 1..(8 * Len(d.ips)) |->
               ToBytes(d.ips[(i - 1) \div 8 + 1], 8)[((i - 1) % 8) + 1]])
  \o Opt("RAW" \in st, ToBytes(Len(d.raw), 4) \o d.raw)
  \o Opt("BRANCH_STACK" \in st,
         ToBytes(Len(d.stack), 8)
         \o [i \in 1..(24 * Len(d.stack)) |->
               LET item == d.stack[(i - 1) \div 24 + 1]
                   bytes == ToBytes(item.from, 8) \o ToBytes(item.to, 8)
                              \o ToBytes(item.flags, 8)
               IN  bytes[((i - 1) % 24) + 1]])
  \o Opt("REGS_USER" \in st,
         ToBytes(d.abi, 8)
         \o Opt(d.abi # 0,
                [i \in 1..(8 * Len(d.regs)) |->
                   ToBytes(d.regs[(i - 1) \div 8 + 1], 8)[((i - 1) % 8) + 1]]))
  \o Opt("STACK_USER" \in st,
         ToBytes(Len(d.stack_data), 8)
         \o Opt(Len(d.stack_data) # 0, d.stack_data \o ToBytes(d.dyn_size, 8)))

\* The record types whose constructors and BinaryFormat handle a sample id.
HasSampleId(r) ==
  r.type \in {PERF_RECORD_MMAP, PERF_RECORD_COMM, PERF_RECORD_EXIT, PERF_RECORD_FORK,
              PERF_RECORD_LOST}

\* What a BinaryFormat function writes between the header and the sample id
\* (record.cpp:215-217, 306-308, 345, 383-384, 482-538, 650-654, 696-698,
\* 810-812, 838).
PayloadBytes(r) ==
  CASE r.type = PERF_RECORD_MMAP ->
         ToBytes(r.data.pid, 4) \o ToBytes(r.data.tid, 4) \o ToBytes(r.data.addr, 8)
         \o ToBytes(r.data.len, 8) \o ToBytes(r.data.pgoff, 8)
         \o PaddedString(r.data.filename)
    [] r.type = PERF_RECORD_COMM ->
         ToBytes(r.data.pid, 4) \o ToBytes(r.data.tid, 4) \o PaddedString(r.data.comm)
    [] r.type \in {PERF_RECORD_EXIT, PERF_RECORD_FORK} ->
         ToBytes(r.data.pid, 4) \o ToBytes(r.data.ppid, 4) \o ToBytes(r.data.tid, 4)
         \o ToBytes(r.data.ptid, 4) \o ToBytes(r.data.time, 8)
    [] r.type = PERF_RECORD_LOST -> ToBytes(r.data.id, 8) \o ToBytes(r.data.lost, 8)
    [] r.type = PERF_RECORD_SAMPLE -> SampleDataBytes(r.data)
    [] r.type = PERF_RECORD_BUILD_ID ->
         ToBytes(r.data.pid, 4) \o r.data.build_id
         \o Zeros(Align(Len(r.data.build_id), 8) - Len(r.data.build_id))
         \o r.data.filename \o <<0>>
    [] r.type = SIMPLE_PERF_RECORD_KERNEL_SYMBOL ->
         ToBytes(Len(r.data.kallsyms), 4) \o r.data.kallsyms
    [] r.type = PERF_RECORD_TRACING_DATA -> ToBytes(Len(r.data.data), 4) \o r.data.data
    [] OTHER -> r.data.data

\* The bytes a BinaryFormat function writes from the start of its buffer
\* (record.cpp:211-220, 302-311, 341-348, 379-387, 478-538, 834-840).
WrittenBytes(r) ==
  HeaderBytes(r) \o PayloadBytes(r)
  \o Opt(HasSampleId(r), WriteToBinaryFormat(r.sample_id))

\* A BinaryFormat function writes past the end of the size() bytes it allocated.
WritesPastEnd(r) == Len(WrittenBytes(r)) > r.size

\* Record::BinaryFormat: a zero-filled buffer of size() bytes, written from its
\* start; SampleRecord::BinaryFormat cuts it to what it wrote (record.cpp:543).
BinaryFormat(r) ==
  LET written == WrittenBytes(r) IN
  IF r.type = PERF_RECORD_SAMPLE THEN written
  ELSE written \o Zeros(r.size - Len(written))

\* Record::Record(p): the header read from the buffer.
HeaderOf(buf) ==
  [type |-> RecordTypeOfCode(FromBytes(buf, 0, 4)),
   misc |-> FromBytes(buf, 4, 2),
   size |-> FromBytes(buf, 6, 2)]

\* The end of a record constructor that reads a sample id at offset p: its two
\* CHECK_LE(p, end) and the record it leaves.  ok: no CHECK failed; last: the
\* offset after the last byte read.
WithSampleId(attr, buf, data, p) ==
  LET h == HeaderOf(buf)
      s == ReadFromBinaryFormat(attr, buf, p)
  IN  [ok |-> p <= h.size /\ s.p <= h.size,
       last |-> IF p <= h.size THEN s.p ELSE p,
       record |-> [type |-> h.type, misc |-> h.misc, size |-> h.size,
                   data |-> data,
                   sample_id |-> IF p <= h.size THEN s.sid ELSE EmptySampleId]]

\* MmapRecord::MmapRecord (record.cpp:201-209).
ReadMmapRecord(attr, buf) ==
  LET filename == CString(buf, header_size + 32)
  IN  WithSampleId(attr, buf,
        [pid |-> FromBytes(buf, header_size, 4),
         tid |-> FromBytes(buf, header_size + 4, 4),
         addr |-> FromBytes(buf, header_size + 8, 8),
         len |-> FromBytes(buf, header_size + 16, 8),
         pgoff |-> FromBytes(buf, header_size + 24, 8),
         filename |-> filename],
        header_size + 32 + Align(Len(filename) + 1, 8))

\* CommRecord::CommRecord (record.cpp:292-300).
ReadCommRecord(attr, buf) ==
  LET comm == CString(buf, header_size + 8)
  IN  WithSampleId(attr, buf,
        [pid |-> FromBytes(buf, header_size, 4),
         tid |-> FromBytes(buf, header_size + 4, 4),
         comm |-> comm],
        header_size + 8 + Align(Len(comm) + 1, 8))

\* ExitOrForkRecord::ExitOrForkRecord (record.cpp:332-339).
ReadExitOrForkRecord(attr, buf) ==
  WithSampleId(attr, buf,
    [pid |-> FromBytes(buf, header_size, 4),
     ppid |-> FromBytes(buf, header_size + 4, 4),
     tid |-> FromBytes(buf, header_size + 8, 4),
     ptid |-> FromBytes(buf, header_size + 12, 4),
     time |-> FromBytes(buf, header_size + 16, 8)],
    header_size + 24)

\* LostRecord::LostRecord (record.cpp:370-377).
ReadLostRecord(attr, buf) ==
  WithSampleId(attr, buf,
    [id |-> FromBytes(buf, header_size, 8),
     lost |-> FromBytes(buf, header_size + 8, 8)],
    header_size + 16)

\* SampleRecord::SampleRecord (record.cpp:393-476).
ReadSampleRecord(attr, buf) ==
  LET h == HeaderOf(buf)
      st == attr.sample_type
      Width(bit, n) == IF bit \in st THEN n ELSE 0
      Field(bit, at, n) == IF bit \in st THEN FromBytes(buf, at, n) ELSE 0
      p_ip == header_size + Width("IDENTIFIER", 8)
      p_tid == p_ip + Width("IP", 8)
      p_time == p_tid + Width("TID", 8)
      p_addr == p_time + Width("TIME", 8)
      p_id == p_addr + Width("ADDR", 8)
      p_stream == p_id + Width("ID", 8)
      p_cpu == p_stream + Width("STREAM_ID", 8)
      p_period == p_cpu + Width("CPU", 8)
      p_callchain == p_period + Width("PERIOD", 8)
      ips_nr == Field("CALLCHAIN", p_callchain, 8)
      p_raw == p_callchain + Width("CALLCHAIN", 8 + 8 * ips_nr)
      raw_size == Field("RAW", p_raw, 4)
      p_branch == p_raw + Width("RAW", 4 + raw_size)
      stack_nr == Field("BRANCH_STACK", p_branch, 8)
      p_regs == p_branch + Width("BRANCH_STACK", 8 + 24 * stack_nr)
      abi == Field("REGS_USER", p_regs, 8)
      bit_nr == IF abi = 0 THEN 0 ELSE Cardinality(attr.sample_regs_user)
      p_stack == p_regs + Width("REGS_USER", 8 + 8 * bit_nr)
      stack_size == Field("STACK_USER", p_stack, 8)
      p_end == p_stack + Width("STACK_USER",
                               8 + IF stack_size = 0 THEN 0 ELSE stack_size + 8)
  IN  [ok |-> p_end <= h.size,
       last |-> p_end,
       record |->
         [type |-> h.type, misc |-> h.misc, size |-> h.size,
          sample_id |-> EmptySampleId,
          data |->
            [sample_type |-> st,
             id |-> IF "ID" \in st THEN FromBytes(buf, p_id, 8)
                    ELSE Field("IDENTIFIER", header_size, 8),
             ip |-> Field("IP", p_ip, 8),
             pid |-> Field("TID", p_tid, 4),
             tid |-> Field("TID", p_tid + 4, 4),
             time |-> Field("TIME", p_time, 8),
             addr |-> Field("ADDR", p_addr, 8),
             stream_id |-> Field("STREAM_ID", p_stream, 8),
             cpu |-> Field("CPU", p_cpu, 4),
             res |-> Field("CPU", p_cpu + 4, 4),
             period |-> Field("PERIOD", p_period, 8),
             ips |-> [i \in 1..ips_nr |-> FromBytes(buf, p_callchain + 8 * i, 8)],
             raw |-> [i \in 1..raw_size |-> ByteAt(buf, p_raw + 3 + i)],
             stack |-> [i \in 1..stack_nr |->
                          [from |-> FromBytes(buf, p_branch + 8 + 24 * (i - 1), 8),
                           to |-> FromBytes(buf, p_branch + 16 + 24 * (i - 1), 8),
                           flags |-> FromBytes(buf, p_branch + 24 + 24 * (i - 1), 8)]],
             abi |-> abi,
             reg_mask |-> IF abi = 0 THEN {} ELSE attr.sample_regs_user,
             regs |-> [i \in 1..bit_nr |-> FromBytes(buf, p_regs + 8 * i, 8)],
             stack_data |-> [i \in 1..stack_size |-> ByteAt(buf, p_stack + 7 + i)],
             dyn_size |-> IF stack_size = 0 THEN 0
                          ELSE FromBytes(buf, p_stack + 8 + stack_size, 8)]]]

\* UnknownRecord::UnknownRecord (record.cpp:830-832); a size below the header's
\* makes the range of the insert invalid.
ReadUnknownRecord(buf) ==
  LET h == HeaderOf(buf)
  IN  [ok |-> TRUE,
       last |-> IF h.size < header_size THEN Len(buf) + 1 ELSE h.size,
       record |-> [type |-> h.type, misc |-> h.misc, size |-> h.size,
                   sample_id |-> EmptySampleId,
                   data |-> [data |-> SubSeq(buf, header_size + 1, h.size)]]]

\* ReadRecordFromBuffer (record.cpp:844-872), for the record types modelled.
ReadRecordFromBuffer(attr, type, buf) ==
  CASE type = PERF_RECORD_MMAP -> ReadMmapRecord(attr, buf)
    [] type = PERF_RECORD_COMM -> ReadCommRecord(attr, buf)
    [] type \in {PERF_RECORD_EXIT, PERF_RECORD_FORK} -> ReadExitOrForkRecord(attr, buf)
    [] type = PERF_RECORD_LOST -> ReadLostRecord(attr, buf)
    [] type = PERF_RECORD_SAMPLE -> ReadSampleRecord(attr, buf)
    [] OTHER -> ReadUnknownRecord(buf)

\* ---- the codec at work ----
\* File names and comm strings, as bytes: the prefixes of "/sys/lib/a".
NameBytes == <<47, 115, 121, 115, 47, 108, 105, 98, 47, 97>>
NameStrings == {SubSeq(NameBytes, 1, n) : n \in 0..MaxNameLen}
EventIds == {5, 300}

\* The sample id of a record the kernel wrote under attr.
KernelSampleId(attr) ==
  [sample_id_all |-> attr.sample_id_all, sample_type |-> attr.sample_type,
   tid_data |-> [pid |-> 42, tid |-> 43], time_data |-> [time |-> 1000],
   id_data |-> [id |-> 300], stream_id_data |-> [stream_id |-> 9],
   cpu_data |-> [cpu |-> 1, res |-> 0]]

KernelSampleData(attr, full) ==
  [sample_type |-> attr.sample_type, id |-> 300, ip |-> 48879, pid |-> 42, tid |-> 43,
   time |-> 1000, addr |-> 4096, stream_id |-> 9, cpu |-> 1, res |-> 0, period |-> 7,
   ips |-> IF full THEN <<10, 11, 12>> ELSE <<>>,
   raw |-> IF full THEN <<1, 2, 3, 4>> ELSE <<>>,
   stack |-> IF full THEN <<[from |-> 1, to |-> 2, flags |-> 3]>> ELSE <<>>,
   abi |-> IF full THEN 1 ELSE 0,
   reg_mask |-> IF full THEN attr.sample_regs_user ELSE {},
   regs |-> IF full THEN <<7, 8>> ELSE <<>>,
   stack_data |-> IF full THEN <<1, 2, 3, 4, 5, 6, 7, 8>> ELSE <<>>,
   dyn_size |-> IF full THEN 8 ELSE 0]

\* Records as the kernel emits them under attr, before their size is set.
KernelRecords(attr) ==
  {NewRecord(PERF_RECORD_MMAP, 2,
             [pid |-> 42, tid |-> 43, addr |-> 4096, len |-> 8192, pgoff |-> 256,
              filename |-> SubSeq(NameBytes, 1, 2)], KernelSampleId(attr)),
   NewRecord(PERF_RECORD_COMM, 0,
             [pid |-> 42, tid |-> 43, comm |-> SubSeq(NameBytes, 2, 4)],
             KernelSampleId(attr)),
   NewRecord(PERF_RECORD_EXIT, 0,
             [pid |-> 42, ppid |-> 41, tid |-> 43, ptid |-> 40, time |-> 1000],
             KernelSampleId(attr)),
   NewRecord(PERF_RECORD_LOST, 0, [id |-> 300, lost |-> 2], KernelSampleId(attr)),
   NewRecord(PERF_RECORD_SAMPLE, 2, KernelSampleData(attr, TRUE), EmptySampleId),
   NewRecord(PERF_RECORD_SAMPLE, 2, KernelSampleData(attr, FALSE), EmptySampleId),
   NewRecord(UNKNOWN_RECORD, 0, [data |-> <<1, 2, 3, 4, 5, 6, 7, 8>>], EmptySampleId)}

\* The bytes of a record the kernel emits: its size is what it wrote.
KernelBytes(r) ==
  LET tail == PayloadBytes(r) \o Opt(HasSampleId(r), KernelSampleIdBytes(r.sample_id))
  IN  HeaderBytes(SetSize(r, header_size + Len(tail))) \o tail

CodecInit ==
  /\ codec_attr \in CodecAttrs
  /\ codec_record = NoRecord
  /\ codec_src = NoRecord
  /\ codec_buf = <<>>
  /\ codec_phase = "empty"
  /\ codec_origin = "none"
  /\ codec_encodes = 0
  /\ drained = [op |-> "new"]

\* A record comes out of a Create function.
Created(record) ==
  /\ codec_phase = "empty"
  /\ codec_record' = record
  /\ codec_phase' = "record"
  /\ codec_origin' = "Create"
  /\ UNCHANGED <<codec_attr, codec_src, codec_buf, codec_encodes, drained>>
  /\ UNCHANGED codecOthers

CreateMmap(in_kernel, filename, event_id) ==
  Created(MmapRecordCreate(codec_attr, in_kernel, 42, 43, 4096, 8192, 256, filename,
                           event_id))

CreateComm(comm, event_id) == Created(CommRecordCreate(codec_attr, 42, 43, comm, event_id))

CreateFork(event_id) == Created(ForkRecordCreate(codec_attr, 42, 43, 41, 40, event_id))

\* The kernel puts a record into the buffer.
KernelWrite(r) ==
  /\ codec_phase = "empty"
  /\ codec_buf' = KernelBytes(r)
  /\ codec_phase' = "bytes"
  /\ codec_origin' = "kernel"
  /\ UNCHANGED <<codec_attr, codec_record, codec_src, codec_encodes, drained>>
  /\ UNCHANGED codecOthers

\* record.BinaryFormat(); writing past the end of the buffer is undefined.
EncodeRecord ==
  /\ codec_phase = "record"
  /\ codec_encodes < MaxEncodes
  /\ codec_encodes' = codec_encodes + 1
  /\ codec_src' = codec_record
  /\ IF WritesPastEnd(codec_record)
       THEN codec_phase' = "undefined" /\ UNCHANGED codec_buf
       ELSE codec_phase' = "bytes" /\ codec_buf' = BinaryFormat(codec_record)
  /\ UNCHANGED <<codec_attr, codec_record, codec_origin, drained>>
  /\ UNCHANGED codecOthers

\* ReadRecordFromBuffer(attr, header.type, buf): a failed CHECK aborts, a read
\* past the end of the buffer is undefined.
DecodeRecord ==
  /\ codec_phase = "bytes"
  /\ LET d == ReadRecordFromBuffer(codec_attr, HeaderOf(codec_buf).type, codec_buf) IN
     IF ~d.ok THEN codec_phase' = "aborted" /\ UNCHANGED codec_record
     ELSE IF d.last > Len(codec_buf)
       THEN codec_phase' = "undefined" /\ UNCHANGED codec_record
     ELSE codec_phase' = "record" /\ codec_record' = d.record
  /\ UNCHANGED <<codec_attr, codec_src, codec_buf, codec_origin, codec_encodes, drained>>
  /\ UNCHANGED codecOthers

\* ---- draining a mapped buffer ----
MaxDrained == 2         \* well-formed records in one drained buffer

\* The loop of ReadRecordsFromBuffer (record.cpp:879-885) from offset p on:
\* [status, result]; a failed CHECK aborts the process, a read past the end of
\* the buffer is undefined.
RECURSIVE ReadRecordsLoop(_, _, _, _)
ReadRecordsLoop(attr, buf, p, result) ==
  IF ~(p < Len(buf)) THEN [status |-> "returned", result |-> result]
  ELSE
    LET rest == SubSeq(buf, p + 1, Len(buf))
        header == HeaderOf(rest)
    IN  IF p + header_size > Len(buf) THEN [status |-> "undefined", result |-> result]
        ELSE IF ~(p + header.size <= Len(buf)) THEN [status |-> "aborted", result |-> result]
        ELSE IF ~(0 # header.size) THEN [status |-> "aborted", result |-> result]
        ELSE LET d == ReadRecordFromBuffer(attr, header.type, rest) IN
             IF ~d.ok THEN [status |-> "aborted", result |-> result]
             ELSE IF d.last > Len(rest) THEN [status |-> "undefined", result |-> result]
             ELSE ReadRecordsLoop(attr, buf, p + header.size, Append(result, d.record))

\* ReadRecordsFromBuffer (record.cpp:874-887).
ReadRecordsFromBuffer(attr, buf) == ReadRecordsLoop(attr, buf, 0, <<>>)

\* Mutant of DeliverRecords: the loop goes on after a callback returned false.
DeliverRecords_IgnoresResult(records, i, refuse_at, delivered) ==
  [ok |-> refuse_at \notin DOMAIN records, delivered |-> records]

\* The loop over records of ReadMmapEventDataForFd (event_selection_set.cpp:564-568)
\* from records[i] on, with a record_callback_ that returns false for the
\* refuse_at-th record it is given (0: for none): [ok, delivered], delivered the
\* records the callback was called with.
RECURSIVE DeliverRecords(_, _, _, _)
DeliverRecords(records, i, refuse_at, delivered) ==
  IF i > Len(records) THEN [ok |-> TRUE, delivered |-> delivered]
  ELSE IF i = refuse_at THEN [ok |-> FALSE, delivered |-> Append(delivered, records[i])]
  ELSE DeliverRecords(records, i + 1, refuse_at, Append(delivered, records[i]))

\* EventSelectionSet::ReadMmapEventDataForFd (event_selection_set.cpp:552-570) on
\* the data its one call of GetAvailableMmapData returned: [status, ok,
\* delivered].
ReadMmapEventDataForFd(attr, data, refuse_at) ==
  IF Len(data) = 0 THEN [status |-> "returned", ok |-> TRUE, delivered |-> <<>>]
  ELSE LET records == ReadRecordsFromBuffer(attr, data) IN
       IF records.status = "returned"
         THEN LET r == DeliverRecords(records.result, 1, refuse_at, <<>>) IN
              [status |-> "returned", ok |-> r.ok, delivered |-> r.delivered]
         ELSE [status |-> records.status, ok |-> FALSE, delivered |-> <<>>]

\* The well-formed records the kernel puts into a mapped buffer.
DrainRecords(attr) ==
  {r \in KernelRecords(attr) :
     r.type \in {PERF_RECORD_MMAP, PERF_RECORD_COMM, PERF_RECORD_LOST, PERF_RECORD_EXIT}}

\* The bytes of a malformed mmap record: its size field is zero, or too small for
\* its padded file name (the record cut to that size), or reaches past the end
\* of the buffer it is the last record of.
Malformed(attr, kind) ==
  LET bytes == KernelBytes(CHOOSE r \in KernelRecords(attr) : r.type = PERF_RECORD_MMAP)
      Sized(size) == [bytes EXCEPT ![7] = size % 256, ![8] = size \div 256]
  IN  CASE kind = "zero size" -> Sized(0)
        [] kind = "size too small" ->
             SubSeq(Sized(header_size + 32), 1, header_size + 32)
        [] kind = "size past the end" -> Sized(Len(bytes) + 8)

MalformedKinds == {"zero size", "size too small", "size past the end"}

RECURSIVE Concat(_)
Concat(seqs) == IF seqs = <<>> THEN <<>> ELSE Head(seqs) \o Concat(Tail(seqs))

\* A read event of a mapped buffer: the buffer holds the well-formed records and,
\* after the first k of them, a malformed record (kind "none": none).
DrainBuffer(records, kind, k) ==
  /\ drained.op = "new"
  /\ kind = "none" => k = 0
  /\ kind = "size past the end" => k = Len(records)
  /\ LET bytes == [i \in DOMAIN records |-> KernelBytes(records[i])]
         mapped == Concat(SubSeq(bytes, 1, k))
                     \o (IF kind = "none" THEN <<>> ELSE Malformed(codec_attr, kind))
                     \o Concat(SubSeq(bytes, k + 1, Len(bytes)))
     IN  \E data \in {mapped} : \E r \in {ReadMmapEventDataForFd(codec_attr, data, 0)} :
           drained' = [op |-> "ReadMmapEventDataForFd", records |-> records, kind |-> kind,
                       status |-> r.status, delivered |-> r.delivered]
  /\ UNCHANGED <<codec_attr, codec_record, codec_buf, codec_src, codec_phase, codec_origin,
                 codec_encodes>>
  /\ UNCHANGED codecOthers

\* The read event of a mapped buffer that holds the records available; the
\* kernel writes the records of later into the buffer after the handler has
\* fetched the available data, and they stay in the buffer (left).
ReadableNotification(available, later, refuse_at) ==
  /\ drained.op = "new"
  /\ LET Bytes(records) == Concat([i \in DOMAIN records |-> KernelBytes(records[i])])
     IN  \E data \in {Bytes(available)} :
           \E r \in {ReadMmapEventDataForFd(codec_attr, data, refuse_at)} :
             drained' = [op |-> "readable", records |-> available, later |-> later,
                         refuse_at |-> refuse_at, status |-> r.status, ok |-> r.ok,
                         delivered |-> r.delivered, left |-> Bytes(later)]
  /\ UNCHANGED <<codec_attr, codec_record, codec_buf, codec_src, codec_phase, codec_origin,
                 codec_encodes>>
  /\ UNCHANGED codecOthers

DeliverNext ==
  \E n \in 0..MaxDrained : \E available \in SeqOfLen(DrainRecords(codec_attr), n) :
    \E m \in 0..1 : \E later \in SeqOfLen(DrainRecords(codec_attr), m) :
      \E refuse_at \in 0..MaxDrained : ReadableNotification(available, later, refuse_at)

DrainNext ==
  \E n \in 1..MaxDrained : \E records \in SeqOfLen(DrainRecords(codec_attr), n) :
    \E kind \in MalformedKinds \cup {"none"} : \E k \in 0..n :
      DrainBuffer(records, kind, k)

\* ---- record sizes ----
\* SampleRecord::AdjustSizeBasedOnData (record.cpp:547-552): [ub, record]; ub when
\* the BinaryFormat it calls writes past the end of its buffer.
AdjustSizeBasedOnData(r) ==
  [ub |-> WritesPastEnd(r), record |-> SetSize(r, Len(WrittenBytes(r)))]

\* n bytes of a payload.
Payload(n) == [i \in 1..n |-> 120]

\* The lengths of the kallsyms strings and tracing data the records are made of:
\* empty, short, the longest whose padded record fits a 16-bit size, and longer.
KallsymsSizes == {0, 5, 65520, 65521, 65536}
TracingDataSizes == {0, 5, 65472, 65473, 65536}

CreateBuildId(in_kernel, filename) ==
  Created(BuildIdRecordCreate(in_kernel, 42, Payload(BUILD_ID_SIZE), filename))

CreateKernelSymbol(size) == Created(KernelSymbolRecordCreate(Payload(size)))

CreateTracingData(size) == Created(TracingDataRecordCreate(Payload(size)))

\* The kernel's sample record is decoded.
DecodeKernelSample ==
  /\ codec_origin = "kernel"
  /\ HeaderOf(codec_buf).type = PERF_RECORD_SAMPLE
  /\ DecodeRecord

\* The owner of a decoded sample record changes its data, as the record command
\* does when it unwinds the stack (record.cpp:540-542): the user stack is dropped,
\* or an ip is added to the call chain.
ChangeSampleData(change) ==
  /\ codec_phase = "record"
  /\ codec_origin = "kernel"
  /\ codec_record.type = PERF_RECORD_SAMPLE
  /\ codec_record' =
       IF change = "drop stack"
         THEN [codec_record EXCEPT !.data.stack_data = <<>>, !.data.dyn_size = 0]
         ELSE [codec_record EXCEPT !.data.ips = Append(@, 13)]
  /\ codec_record' # codec_record
  /\ codec_origin' = "changed"
  /\ UNCHANGED <<codec_attr, codec_src, codec_buf, codec_phase, codec_encodes, drained>>
  /\ UNCHANGED codecOthers

\* record.AdjustSizeBasedOnData() on a changed sample record.
CallAdjustSizeBasedOnData ==
  /\ codec_phase = "record"
  /\ codec_origin = "changed"
  /\ LET a == AdjustSizeBasedOnData(codec_record) IN
     IF a.ub
       THEN /\ codec_phase' = "undefined"
            /\ codec_src' = codec_record
            /\ UNCHANGED codec_record
       ELSE /\ codec_record' = a.record
            /\ UNCHANGED <<codec_phase, codec_src>>
  /\ codec_origin' = "AdjustSizeBasedOnData"
  /\ UNCHANGED <<codec_attr, codec_buf, codec_encodes, drained>>
  /\ UNCHANGED codecOthers

SizeNext ==
  \/ \E in_kernel \in BOOLEAN : \E filename \in NameStrings : CreateBuildId(in_kernel, filename)
  \/ \E size \in KallsymsSizes : CreateKernelSymbol(size)
  \/ \E size \in TracingDataSizes : CreateTracingData(size)
  \/ \E comm \in NameStrings : \E event_id \in EventIds : CreateComm(comm, event_id)
  \/ \E r \in {k \in KernelRecords(codec_attr) : k.type = PERF_RECORD_SAMPLE} : KernelWrite(r)
  \/ DecodeKernelSample
  \/ \E change \in {"drop stack", "add ip"} : ChangeSampleData(change)
  \/ CallAdjustSizeBasedOnData
  \/ EncodeRecord

CodecNext ==
  \/ \E in_kernel \in BOOLEAN : \E filename \in NameStrings : \E event_id \in EventIds :
       CreateMmap(in_kernel, filename, event_id)
  \/ \E comm \in NameStrings : \E event_id \in EventIds : CreateComm(comm, event_id)
  \/ \E event_id \in EventIds : CreateFork(event_id)
  \/ \E r \in KernelRecords(codec_attr) : KernelWrite(r)
  \/ EncodeRecord
  \/ DecodeRecord

InitCodec == CodecInit /\ CacheIdle /\ ChainIdle /\ SetIdle /\ LoopIdle /\ ReportIdle

SpecCodec == InitCodec /\ [][CodecNext]_vars

\* The attrs the sizes are checked under.
SizeAttrs ==
  {a \in CodecAttrs : a.sample_id_all /\ a.sample_type \cap SampleIdBits \in {{}, {"TID", "TIME"}}}

InitCodecSize == InitCodec /\ codec_attr \in SizeAttrs

SpecCodecSize == InitCodecSize /\ [][SizeNext]_vars

SpecDrain == InitCodecSize /\ [][DrainNext]_vars

SpecDeliver == InitCodecSize /\ [][DeliverNext]_vars

(***************************************************************************)
(* Properties of the record codec.                                         *)
(***************************************************************************)
Selected(sid, bit) == sid.sample_id_all /\ bit \in sid.sample_type

\* Equal in header, payload fields and every sample_id field the mask selects.
RecordEqual(r1, r2) ==
  /\ r1.type = r2.type /\ r1.misc = r2.misc /\ r1.size = r2.size
  /\ r1.data = r2.data
  /\ r1.sample_id.sample_id_all = r2.sample_id.sample_id_all
  /\ r1.sample_id.sample_type = r2.sample_id.sample_type
  /\ Selected(r2.sample_id, "TID") => r1.sample_id.tid_data = r2.sample_id.tid_data
  /\ Selected(r2.sample_id, "TIME") => r1.sample_id.time_data = r2.sample_id.time_data
  /\ Selected(r2.sample_id, "ID") => r1.sample_id.id_data = r2.sample_id.id_data
  /\ Selected(r2.sample_id, "STREAM_ID") =>
       r1.sample_id.stream_id_data = r2.sample_id.stream_id_data
  /\ Selected(r2.sample_id, "CPU") => r1.sample_id.cpu_data = r2.sample_id.cpu_data
  /\ Selected(r2.sample_id, "IDENTIFIER") => r1.sample_id.id_data = r2.sample_id.id_data

\* C3: decoding r.BinaryFormat() with the same attr yields a record equal to r in
\* header, payload fields and every sample_id field selected by the mask.
C3_RoundTrip ==
  (codec_src # NoRecord) =>
    /\ codec_phase \in {"bytes", "record"}
    /\ codec_phase = "record" => RecordEqual(codec_record, codec_src)

(***************************************************************************)
(*              EventSelectionSet (event_selection_set.cpp)                *)
(***************************************************************************)
\* Bounds of the selection-set model.
MaxSelections == 3      \* selections in the set
MaxGroupSize == 2       \* event names in one AddEventGroup call

USER_SPACE_SAMPLER_EVENT_TYPE == "user-space-sampler"
INPLACE_SAMPLER_CONFIG == "inplace-sampler"
NoEvent == [name |-> "nullptr"]

\* The event names the callers pass; ParseEventType knows all but the last.
EventNames == {"cpu-cycles", "cpu-clock:u", "sched:sched_switch", "inplace-sampler",
               "no-such-event"}

\* The event types ParseEventType finds by name, or NoEvent.
FindEventTypeByName(name) ==
  CASE name = "cpu-cycles" -> [name |-> name, type |-> "hardware", config |-> "cycles"]
    [] name = "cpu-clock" -> [name |-> name, type |-> "software", config |-> "clock"]
    [] name = "task-clock" -> [name |-> name, type |-> "software", config |-> "task-clock"]
    [] name = "sched:sched_switch" ->
         [name |-> name, type |-> "tracepoint", config |-> "sched_switch"]
    [] name = "inplace-sampler" ->
         [name |-> name, type |-> USER_SPACE_SAMPLER_EVENT_TYPE,
          config |-> INPLACE_SAMPLER_CONFIG]
    [] OTHER -> NoEvent

\* An event name as event and modifier: the text before and after the last ':'
\* when what follows it is a modifier.
SplitEventName(event_name) ==
  CASE event_name = "cpu-clock:u" -> <<"cpu-clock", "u">>
    [] event_name = "cpu-clock:k" -> <<"cpu-clock", "k">>
    [] event_name = "task-clock:u" -> <<"task-clock", "u">>
    [] event_name = "task-clock:k" -> <<"task-clock", "k">>
    [] event_name = "cpu-cycles:u" -> <<"cpu-cycles", "u">>
    [] event_name = "cpu-cycles:k" -> <<"cpu-cycles", "k">>
    [] OTHER -> <<event_name, "">>

\* ParseEventType (called at event_selection_set.cpp:58): the EventTypeAndModifier
\* of an event name, or NoEvent for nullptr.  Modifier u counts user space only
\* (exclude_kernel), modifier k the kernel only (exclude_user).
ParseEventType(event_name) ==
  LET parts == SplitEventName(event_name)
      event_type == FindEventTypeByName(parts[1])
  IN  IF event_type = NoEvent THEN NoEvent
      ELSE [name |-> event_name, modifier |-> parts[2],
            exclude_user |-> parts[2] = "k", exclude_kernel |-> parts[2] = "u",
            event_type |-> event_type]

\* CreateDefaultPerfEventAttr (called at event_selection_set.cpp:74), as far as
\* the set uses the attr: tracepoint events also record raw data.
CreateDefaultPerfEventAttr(event_type) ==
  [type |-> event_type.type, config |-> event_type.config,
   sample_type |-> {"IP", "TID", "TIME", "PERIOD", "CPU", "ID"}
                     \cup IF event_type.type = "tracepoint" THEN {"RAW"} ELSE {},
   branch_sample_type |-> {},
   exclude_user |-> FALSE, exclude_kernel |-> FALSE,
   enable_on_exec |-> FALSE, disabled |-> FALSE,
   exclude_callchain_user |-> FALSE, sample_stack_user |-> 0]

\* The machines the set runs on: what the kernel supports, the events it refuses
\* to open on a cpu, and (filled in from kernel_online) the cpus online.
Machines ==
  {[unsupported |-> {}, branch_sampling |-> TRUE, dwarf_sampling |-> TRUE,
    inplace_sampler |-> TRUE, mmap_limit |-> 4, refuses |-> {}, online |-> {}],
   [unsupported |-> {"tracepoint"}, branch_sampling |-> FALSE, dwarf_sampling |-> FALSE,
    inplace_sampler |-> FALSE, mmap_limit |-> 1,
    refuses |-> {<<"cpu-clock:u", 0>>}, online |-> {}]}

\* The targets of a profiling run: all threads (-1), or process 10.
Targets == {[processes |-> {}, threads |-> {-1}], [processes |-> {10}, threads |-> {}]}

\* IsEventAttrSupportedByKernel (called at event_selection_set.cpp:82).
IsEventAttrSupportedByKernel(k, attr) == attr.type \notin k.unsupported

\* The pairs <<g, s>> that index the selections of the groups.
SelectionIndexes(groups) ==
  UNION {{<<g, s>> : s \in DOMAIN groups[g]} : g \in DOMAIN groups}

\* Mutant of RejectsClockModifier: the rule applies to every command.
RejectsClockModifier_AnyCommand(for_stat_cmd, event_type) ==
  /\ event_type.event_type.name \in {"cpu-clock", "task-clock"}
  /\ (event_type.exclude_user \/ event_type.exclude_kernel)

\* The check of event_selection_set.cpp:62-72: the stat command does not take
\* cpu-clock or task-clock with modifier u or k.
RejectsClockModifier(for_stat_cmd, event_type) ==
  /\ for_stat_cmd
  /\ event_type.event_type.name \in {"cpu-clock", "task-clock"}
  /\ (event_type.exclude_user \/ event_type.exclude_kernel)

\* EventSelectionSet::BuildAndCheckEventSelection (event_selection_set.cpp:56-104):
\* [ok, selection].
BuildAndCheckEventSelection(groups, for_stat_cmd, k, event_name) ==
  LET event_type == ParseEventType(event_name) IN
  IF event_type = NoEvent THEN [ok |-> FALSE]
  ELSE IF RejectsClockModifier(for_stat_cmd, event_type) THEN [ok |-> FALSE]
  ELSE
    LET attr0 == [CreateDefaultPerfEventAttr(event_type.event_type)
                    EXCEPT !.exclude_user = event_type.exclude_user,
                           !.exclude_kernel = event_type.exclude_kernel]
        attr == IF /\ attr0.type = USER_SPACE_SAMPLER_EVENT_TYPE
                   /\ attr0.config = INPLACE_SAMPLER_CONFIG
                  THEN [attr0 EXCEPT !.sample_type = @ \cup {"CALLCHAIN"}]
                  ELSE attr0
        selection == [event_type_modifier |-> event_type, event_attr |-> attr,
                      event_fds |-> <<>>, inplace_sampler |-> FALSE,
                      hotplugged_counters |-> <<>>]
    IN  IF /\ attr0.type # USER_SPACE_SAMPLER_EVENT_TYPE
           /\ ~IsEventAttrSupportedByKernel(k, attr0)
          THEN [ok |-> FALSE]
        ELSE IF \E gs \in SelectionIndexes(groups) :
                  groups[gs[1]][gs[2]].event_type_modifier.name = event_type.name
          THEN [ok |-> FALSE]
        ELSE [ok |-> TRUE, selection |-> selection]

\* Mutant of UnionSampleType: it leaves the masks as they are.
UnionSampleType_Skipped(groups) == groups

\* EventSelectionSet::UnionSampleType (event_selection_set.cpp:174-186).
UnionSampleType(groups) ==
  LET sample_type == UNION {groups[gs[1]][gs[2]].event_attr.sample_type :
                              gs \in SelectionIndexes(groups)}
  IN  [g \in DOMAIN groups |-> [i \in DOMAIN groups[g] |->
      LET selection == groups[g][i] IN
      [selection EXCEPT !.event_attr.sample_type = sample_type]]]

\* Mutant of AddEventGroup: every selection that passes its checks is pushed to
\* groups_ at once, so a group that fails later leaves its first events behind.
AddEventGroup_PushesAsItGoes(groups, for_stat_cmd, k, event_names) ==
  LET built == [i \in DOMAIN event_names |->
                  BuildAndCheckEventSelection(groups, for_stat_cmd, k, event_names[i])]
      n_passed == CHOOSE n \in 0..Len(built) :
                  /\ \A i \in 1..n : built[i].ok
                  /\ n < Len(built) => ~built[n + 1].ok
      group == [i \in 1..n_passed |-> built[i].selection]
      kept == IF n_passed = 0 THEN groups ELSE Append(groups, group)
  IN  [ok |-> n_passed = Len(built), groups |-> UnionSampleType(kept), pushed |-> kept]

\* EventSelectionSet::AddEventGroup (event_selection_set.cpp:110-139):
\* [ok, groups, pushed (groups_ after push_back, before UnionSampleType)].
AddEventGroup(groups, for_stat_cmd, k, event_names) ==
  LET built == [i \in DOMAIN event_names |->
                  BuildAndCheckEventSelection(groups, for_stat_cmd, k, event_names[i])]
      failed == [ok |-> FALSE, groups |-> groups, pushed |-> groups]
  IN  IF \E i \in DOMAIN built : ~built[i].ok THEN failed
      ELSE
        LET group == [i \in DOMAIN built |-> built[i].selection]
            has_user_space_sampler ==
              \E i \in DOMAIN group :
                group[i].event_attr.type = USER_SPACE_SAMPLER_EVENT_TYPE
        IN  IF has_user_space_sampler /\ (Len(group) > 1 \/ for_stat_cmd) THEN failed
            ELSE [ok |-> TRUE,
                  groups |-> UnionSampleType(Append(groups, group)),
                  pushed |-> Append(groups, group)]

\* EventSelectionSet::SetBranchSampling (event_selection_set.cpp:261-286), with the
\* mask branch_sample_type as a set of bits: [ok, groups].
SetBranchSampling(groups, k, branch_sample_type) ==
  IF /\ branch_sample_type # {}
     /\ branch_sample_type \cap {"ANY", "ANY_CALL", "ANY_RETURN", "IND_CALL"} = {}
    THEN [ok |-> FALSE, groups |-> groups]
  ELSE IF branch_sample_type # {} /\ ~k.branch_sampling
    THEN [ok |-> FALSE, groups |-> groups]
  ELSE [ok |-> TRUE,
        groups |-> [g \in DOMAIN groups |-> [i \in DOMAIN groups[g] |->
      LET selection == groups[g][i] IN
      [selection EXCEPT
               !.event_attr.sample_type =
                  IF branch_sample_type # {} THEN @ \cup {"BRANCH_STACK"}
                  ELSE @ \ {"BRANCH_STACK"},
               !.event_attr.branch_sample_type = branch_sample_type]]]]

\* EventSelectionSet::EnableFpCallChainSampling (event_selection_set.cpp:288-294).
EnableFpCallChainSampling(groups) ==
  [g \in DOMAIN groups |-> [i \in DOMAIN groups[g] |->
      LET selection == groups[g][i] IN
      [selection EXCEPT !.event_attr.sample_type = @ \cup {"CALLCHAIN"}]]]

\* EventSelectionSet::EnableDwarfCallChainSampling (event_selection_set.cpp:296-313):
\* [ok, groups].
EnableDwarfCallChainSampling(groups, k, dump_stack_size) ==
  IF ~k.dwarf_sampling THEN [ok |-> FALSE, groups |-> groups]
  ELSE [ok |-> TRUE,
        groups |-> [g \in DOMAIN groups |-> [i \in DOMAIN groups[g] |->
      LET selection == groups[g][i] IN
      [selection EXCEPT
               !.event_attr.sample_type = @ \cup {"CALLCHAIN", "REGS_USER", "STACK_USER"},
               !.event_attr.exclude_callchain_user = TRUE,
               !.event_attr.sample_stack_user = dump_stack_size]]]]

\* ---- event files ----
\* Bounds of the event-file model.
MaxCpu == 1             \* cpus are 0..MaxCpu
MaxScans == 2           \* periodic hotplug scans

Cpus == 0..MaxCpu

\* GetThreadsInProcess (called at event_selection_set.cpp:403): process 10 has the
\* threads 10 and 11.
GetThreadsInProcess(pid) == IF pid = 10 THEN {10, 11} ELSE {}

\* A set of integers in ascending order, as iterating a std::set or the vector of
\* GetOnlineCpus gives it.
RECURSIVE Ascending(_)
Ascending(S) ==
  IF S = {} THEN <<>>
  ELSE LET m == CHOOSE x \in S : \A y \in S : x <= y
       IN  <<m>> \o Ascending(S \ {m})

\* PrepareThreads (event_selection_set.cpp:399-407).
PrepareThreads(processes, threads) ==
  threads \cup UNION {GetThreadsInProcess(pid) : pid \in processes}

\* EventSelectionSet::IsUserSpaceSamplerGroup (event_selection_set.cpp:342-344).
IsUserSpaceSamplerGroup(group) ==
  Len(group) = 1 /\ group[1].event_attr.type = USER_SPACE_SAMPLER_EVENT_TYPE

\* CheckIfCpusOnline (event_selection_set.cpp:346-356).
CheckIfCpusOnline(online, cpus) == \A i \in DOMAIN cpus : cpus[i] \in online

\* EventFd::OpenEventFile (called at event_selection_set.cpp:367): whether the
\* kernel opens the event for tid on cpu.  m is the machine: [online, refuses].
KernelOpens(m, selection, tid, cpu) ==
  /\ cpu = -1 \/ cpu \in m.online
  /\ <<selection.event_type_modifier.name, cpu>> \notin m.refuses

\* The EventFd of a file just opened; group_fd is the leader OpenEventFile was
\* given, 0 for nullptr.
NewEventFd(selection, tid, cpu, group_fd) ==
  [name |-> selection.event_type_modifier.name, tid |-> tid, cpu |-> cpu,
   group_fd |-> group_fd, open |-> TRUE, buffer |-> "none", owner |-> 0,
   polling |-> FALSE, callback |-> [by |-> "none"]]

\* ~EventFd for the files ids: the buffer is unmapped and the descriptor closed;
\* a poll registration is left to StopPolling.
CloseFiles(files, ids) ==
  [id \in DOMAIN files |->
     IF \E i \in DOMAIN ids : ids[i] = id
       THEN [files[id] EXCEPT !.open = FALSE, !.buffer = "none"]
       ELSE files[id]]

\* The first loop of OpenEventFilesOnGroup (event_selection_set.cpp:365-380), from
\* selection i on: [ok, files, event_fds, failed_event_type].  After
\* push_back(std::move(event_fd)) the local event_fd holds nullptr, which is what
\* event_fd.get() then hands to group_fd.  Every caller passes failed_event_type.
RECURSIVE OpenGroupSelections(_, _, _, _, _, _, _, _)
OpenGroupSelections(m, files, group, i, tid, cpu, group_fd, event_fds) ==
  IF i > Len(group)
    THEN [ok |-> TRUE, files |-> files, event_fds |-> event_fds,
          failed_event_type |-> ""]
  ELSE IF KernelOpens(m, group[i], tid, cpu)
    THEN LET id == Len(files) + 1
             event_fd_after_move == 0
         IN  OpenGroupSelections(m, Append(files, NewEventFd(group[i], tid, cpu, group_fd)),
                                 group, i + 1, tid, cpu,
                                 IF group_fd = 0 THEN event_fd_after_move ELSE group_fd,
                                 Append(event_fds, id))
  ELSE [ok |-> FALSE, files |-> CloseFiles(files, event_fds), event_fds |-> <<>>,
        failed_event_type |-> group[i].event_type_modifier.name]

\* Mutant of OpenEventFilesOnGroup: the files opened before a failure stay with
\* their selections.
OpenEventFilesOnGroup_KeepsPartial(m, s, g, tid, cpu) ==
  LET group == s.groups[g]
      opens == {n \in 0..Len(group) : \A i \in 1..n : KernelOpens(m, group[i], tid, cpu)}
      n == CHOOSE x \in opens : \A y \in opens : y <= x
      r == OpenGroupSelections(m, s.files, SubSeq(group, 1, n), 1, tid, cpu, 0, <<>>)
  IN  [ok |-> n = Len(group),
       failed_event_type |-> IF n = Len(group) THEN "" ELSE group[n + 1].event_type_modifier.name,
       s |-> [s EXCEPT
                !.files = r.files,
                !.groups[g] = [i \in DOMAIN group |->
                                 IF i <= n
                                   THEN [group[i] EXCEPT !.event_fds = Append(@, r.event_fds[i])]
                                   ELSE group[i]]]]

\* EventSelectionSet::OpenEventFilesOnGroup (event_selection_set.cpp:358-385) on
\* group g of s = [groups, files, ...]: [ok, s, failed_event_type].
OpenEventFilesOnGroup(m, s, g, tid, cpu) ==
  LET r == OpenGroupSelections(m, s.files, s.groups[g], 1, tid, cpu, 0, <<>>) IN
  [ok |-> r.ok,
   failed_event_type |-> r.failed_event_type,
   s |-> [s EXCEPT
            !.files = r.files,
            !.groups[g] =
               IF r.ok
                 THEN [i \in DOMAIN s.groups[g] |->
                         [s.groups[g][i] EXCEPT !.event_fds = Append(@, r.event_fds[i])]]
                 ELSE @]]

\* EventSelectionSet::OpenUserSpaceSampler (event_selection_set.cpp:387-397):
\* [ok, s]; InplaceSampler::Create gives nullptr on a machine without the sampler.
OpenUserSpaceSampler(m, s, g) ==
  IF /\ s.groups[g][1].event_type_modifier.event_type.config = INPLACE_SAMPLER_CONFIG
     /\ m.inplace_sampler
    THEN [ok |-> TRUE, s |-> [s EXCEPT !.groups[g][1].inplace_sampler = TRUE]]
    ELSE [ok |-> FALSE, s |-> s]

\* The loop over cpus of OpenEventFiles (event_selection_set.cpp:429-433), from
\* cpus[i] on: [s, success_cpu_count].
RECURSIVE OpenOnCpus(_, _, _, _, _, _, _)
OpenOnCpus(m, s, g, tid, cpus, i, success_cpu_count) ==
  IF i > Len(cpus) THEN [s |-> s, success_cpu_count |-> success_cpu_count]
  ELSE LET r == OpenEventFilesOnGroup(m, s, g, tid, cpus[i])
       IN  OpenOnCpus(m, r.s, g, tid, cpus, i + 1,
                      success_cpu_count + IF r.ok THEN 1 ELSE 0)

\* Mutant of OpenOnThreads: a thread with no cpu opened does not fail the open.
RECURSIVE OpenOnThreads_IgnoresCount(_, _, _, _, _, _)
OpenOnThreads_IgnoresCount(m, s, g, tids, j, cpus) ==
  IF j > Len(tids) THEN [ok |-> TRUE, s |-> s]
  ELSE OpenOnThreads_IgnoresCount(m, OpenOnCpus(m, s, g, tids[j], cpus, 1, 0).s,
                                  g, tids, j + 1, cpus)

\* The loop over threads of OpenEventFiles (event_selection_set.cpp:426-445), from
\* tids[j] on: [ok, s].
RECURSIVE OpenOnThreads(_, _, _, _, _, _)
OpenOnThreads(m, s, g, tids, j, cpus) ==
  IF j > Len(tids) THEN [ok |-> TRUE, s |-> s]
  ELSE LET r == OpenOnCpus(m, s, g, tids[j], cpus, 1, 0)
       IN  IF r.success_cpu_count = 0 THEN [ok |-> FALSE, s |-> r.s]
           ELSE OpenOnThreads(m, r.s, g, tids, j + 1, cpus)

\* The loop over groups of OpenEventFiles (event_selection_set.cpp:420-447), from
\* group g on: [ok, s].
RECURSIVE OpenOnGroups(_, _, _, _, _)
OpenOnGroups(m, s, g, tids, cpus) ==
  IF g > Len(s.groups) THEN [ok |-> TRUE, s |-> s]
  ELSE IF IsUserSpaceSamplerGroup(s.groups[g])
    THEN LET r == OpenUserSpaceSampler(m, s, g)
         IN  IF ~r.ok THEN [ok |-> FALSE, s |-> r.s]
             ELSE OpenOnGroups(m, r.s, g + 1, tids, cpus)
  ELSE LET r == OpenOnThreads(m, s, g, tids, 1, cpus)
       IN  IF ~r.ok THEN r ELSE OpenOnGroups(m, r.s, g + 1, tids, cpus)

\* EventSelectionSet::OpenEventFiles (event_selection_set.cpp:409-449): [ok, s].
OpenEventFiles(m, s, on_cpus) ==
  IF /\ on_cpus # <<>>
     /\ ~(Len(on_cpus) = 1 /\ on_cpus[1] = -1)
     /\ ~CheckIfCpusOnline(m.online, on_cpus)
    THEN [ok |-> FALSE, s |-> s]
    ELSE OpenOnGroups(m, s, 1,
                      Ascending(PrepareThreads(s.processes, s.threads)),
                      IF on_cpus # <<>> THEN on_cpus ELSE Ascending(m.online))

\* ---- mapped buffers and cpu hotplug ----
\* One call a handler makes on an event file or a callback, as the history
\* keeps it: the callee, the file (or thread) and cpu it is about, its data.
Call(call, id, cpu, data) == [call |-> call, id |-> id, cpu |-> cpu, data |-> data]

Log(s, call) == [s EXCEPT !.log = Append(@, call)]

\* A call that can fail for reasons outside the set (a counter read, a record
\* callback, an ioctl, a poll registration): the call numbered s.fail_at of the
\* handler fails; [ok, s].
Try(s) ==
  [ok |-> s.calls + 1 # s.fail_at,
   s |-> IF s.calls + 1 # s.fail_at THEN [s EXCEPT !.calls = @ + 1]
         ELSE Log([s EXCEPT !.calls = @ + 1], Call("call fails", 0, 0, <<>>))]

RECURSIVE Flatten(_)
Flatten(seqs) == IF seqs = <<>> THEN <<>> ELSE Head(seqs) \o Flatten(Tail(seqs))

\* The event files in the order the loops over groups_, a group and event_fds
\* visit them, each as <<g, i, id>>.
FilesInOrder(groups) ==
  Flatten([g \in DOMAIN groups |->
    Flatten([i \in DOMAIN groups[g] |->
      [k \in DOMAIN groups[g][i].event_fds |-> <<g, i, groups[g][i].event_fds[k]>>]])])

FilesOnCpu(s, cpu) ==
  SelectSeq(FilesInOrder(s.groups), LAMBDA v : s.files[v[3]].cpu = cpu)

\* ReadCounter (event_selection_set.cpp:451-458) when the read succeeds: the
\* CounterInfo of the file; the value read stands as the id of the file read.
ReadCounter(files, id) == [tid |-> files[id].tid, cpu |-> files[id].cpu, id |-> id]

\* selection.event_fds.erase(it): the unique_ptr goes and the file is closed.
EraseEventFd(s, g, i, id) ==
  [s EXCEPT !.groups[g][i].event_fds = SelectSeq(@, LAMBDA x : x # id),
            !.files = CloseFiles(@, <<id>>)]

\* The loops of HandleCpuOfflineEvent (event_selection_set.cpp:631-658) over the
\* files bound to the cpu, from visits[k] on: [ok, s].
RECURSIVE OfflineFiles(_, _, _)
OfflineFiles(s, visits, k) ==
  IF k > Len(visits) THEN [ok |-> TRUE, s |-> s]
  ELSE
    LET g == visits[k][1]
        i == visits[k][2]
        id == visits[k][3]
        cpu == s.files[id].cpu
        erase == Call("erase", id, cpu, <<>>)
    IN  IF s.for_stat_cmd
          THEN LET read == Try(Log(s, Call("ReadCounter", id, cpu, <<>>))) IN
               IF ~read.ok THEN [ok |-> FALSE, s |-> read.s]
               ELSE OfflineFiles(
                      EraseEventFd(
                        Log([read.s EXCEPT !.groups[g][i].hotplugged_counters =
                               Append(@, ReadCounter(s.files, id))],
                            erase),
                        g, i, id),
                      visits, k + 1)
        ELSE IF s.files[id].buffer # "none"
          THEN LET read == Try(Log(s, Call("ReadMmapEventDataForFd", id, cpu, <<>>)))
                   stop == Try(Log(read.s, Call("StopPolling", id, cpu, <<>>)))
               IN  IF ~read.ok THEN [ok |-> FALSE, s |-> read.s]
                   ELSE IF ~stop.ok THEN [ok |-> FALSE, s |-> stop.s]
                   ELSE OfflineFiles(
                          EraseEventFd(Log([stop.s EXCEPT !.files[id].polling = FALSE,
                                                         !.files[id].callback = [by |-> "none"]],
                                           erase),
                                       g, i, id),
                          visits, k + 1)
        ELSE OfflineFiles(EraseEventFd(Log(s, erase), g, i, id), visits, k + 1)

\* return of a cpu hotplug handler, kept in the history.
Return(r, cpu) ==
  [r EXCEPT !.s = Log(@, Call(IF r.ok THEN "return true" ELSE "return false", 0, cpu, <<>>))]

\* Mutant of HandleCpuOfflineEvent: the files are closed as if none had a buffer.
HandleCpuOfflineEvent_NoDrain(s, cpu) ==
  Return(OfflineFiles([Log(s, Call("HandleCpuOfflineEvent", 0, cpu, <<>>)) EXCEPT
                         !.files = [id \in DOMAIN @ |-> [@[id] EXCEPT !.buffer = "none"]]],
                      FilesOnCpu(s, cpu), 1),
         cpu)

\* EventSelectionSet::HandleCpuOfflineEvent (event_selection_set.cpp:630-660).
HandleCpuOfflineEvent(s, cpu) ==
  Return(OfflineFiles(Log(s, Call("HandleCpuOfflineEvent", 0, cpu, <<>>)),
                      FilesOnCpu(s, cpu), 1),
         cpu)

\* EventSelectionSet::SetEnableOnExec (event_selection_set.cpp:188-205).
SetEnableOnExec(groups, enable) ==
  [g \in DOMAIN groups |-> [i \in DOMAIN groups[g] |->
      LET selection == groups[g][i] IN
      [selection EXCEPT !.event_attr.enable_on_exec = enable,
                                         !.event_attr.disabled = enable]]]

\* Mutant of MapFilesOnCpu: every file on the cpu creates a buffer of its own.
MapFilesOnCpu_EachCreates(m, s, visits, k, fd_with_buffer) ==
  [ok |-> TRUE,
   s |-> [s EXCEPT !.files = [id \in DOMAIN @ |->
                                IF \E n \in DOMAIN visits : visits[n][3] = id
                                  THEN [@[id] EXCEPT !.buffer = "own", !.owner = id]
                                  ELSE @[id]]],
   fd_with_buffer |-> IF visits = <<>> THEN 0 ELSE visits[1][3]]

\* The loop of CreateMappedBufferForCpu (event_selection_set.cpp:711-730), from
\* visits[k] on: [ok, s, fd_with_buffer].  CreateMappedBuffer fails when the
\* machine cannot lock that many pages.
RECURSIVE MapFilesOnCpu(_, _, _, _, _)
MapFilesOnCpu(m, s, visits, k, fd_with_buffer) ==
  IF k > Len(visits) THEN [ok |-> TRUE, s |-> s, fd_with_buffer |-> fd_with_buffer]
  ELSE
    LET id == visits[k][3] IN
    IF fd_with_buffer = 0
      THEN LET create == Log(s, Call("CreateMappedBuffer", id, s.files[id].cpu, <<>>)) IN
           IF s.mmap_pages > m.mmap_limit
             THEN [ok |-> FALSE, s |-> create, fd_with_buffer |-> 0]
             ELSE MapFilesOnCpu(m, [create EXCEPT !.files[id].buffer = "own",
                                                  !.files[id].owner = id],
                                visits, k + 1, id)
      ELSE LET share == Try(Log(s, Call("ShareMappedBuffer", id, s.files[id].cpu,
                                        <<fd_with_buffer>>)))
           IN
           IF ~share.ok
             THEN [ok |-> FALSE,
                   s |-> [Log(share.s, Call("DestroyMappedBuffer", fd_with_buffer,
                                            s.files[fd_with_buffer].cpu, <<>>))
                            EXCEPT !.files[fd_with_buffer].buffer = "none",
                                   !.files[fd_with_buffer].owner = 0],
                   fd_with_buffer |-> fd_with_buffer]
             ELSE MapFilesOnCpu(m, [share.s EXCEPT !.files[id].buffer = "shared",
                                                   !.files[id].owner = fd_with_buffer],
                                visits, k + 1, fd_with_buffer)

\* The closure [this, fd_with_buffer] of event_selection_set.cpp:732-735: it
\* holds the EventFd pointer itself.
CapturedByValue(fd) == [by |-> "value", fd |-> fd]

\* The closure [&] of event_selection_set.cpp:531-533: it holds a reference to
\* event_fd, the unique_ptr at position k of the event_fds vector of selection i
\* of group g, whose elements are event_fds when the closure is made.
CapturedByReference(g, i, k, event_fds) ==
  [by |-> "reference", g |-> g, i |-> i, k |-> k, event_fds |-> event_fds]

\* EventSelectionSet::CreateMappedBufferForCpu (event_selection_set.cpp:709-738):
\* [ok, s]; StartPolling(*loop_, ...) with loop_ unset is undefined.
CreateMappedBufferForCpu(m, s, cpu) ==
  LET r == MapFilesOnCpu(m, s, FilesOnCpu(s, cpu), 1, 0) IN
  IF ~r.ok THEN [ok |-> FALSE, s |-> r.s]
  ELSE IF r.fd_with_buffer = 0 THEN [ok |-> TRUE, s |-> r.s]
  ELSE IF ~r.s.loop THEN [ok |-> FALSE, s |-> [r.s EXCEPT !.undefined = TRUE]]
  ELSE LET poll == Try(Log(r.s, Call("StartPolling", r.fd_with_buffer, cpu, <<>>))) IN
       IF ~poll.ok THEN [ok |-> FALSE, s |-> poll.s]
       ELSE [ok |-> TRUE,
             s |-> [poll.s EXCEPT !.files[r.fd_with_buffer].polling = TRUE,
                                  !.files[r.fd_with_buffer].callback =
                                     CapturedByValue(r.fd_with_buffer)]]

\* Mutant of OnlineThreads: the loop ends at the first open that fails.
RECURSIVE OnlineThreads_StopsAtFailure(_, _, _, _, _, _)
OnlineThreads_StopsAtFailure(m, s, g, tids, j, cpu) ==
  IF j > Len(tids) THEN s
  ELSE LET r == OpenEventFilesOnGroup(
                  m, Log(s, Call("OpenEventFilesOnGroup", tids[j], cpu, <<g>>)),
                  g, tids[j], cpu)
       IN  IF r.ok THEN OnlineThreads_StopsAtFailure(m, r.s, g, tids, j + 1, cpu)
           ELSE r.s

\* The loop over threads of HandleCpuOnlineEvent (event_selection_set.cpp:670-680),
\* from tids[j] on: a failed open is only a warning.
RECURSIVE OnlineThreads(_, _, _, _, _, _)
OnlineThreads(m, s, g, tids, j, cpu) ==
  IF j > Len(tids) THEN s
  ELSE OnlineThreads(m,
                     OpenEventFilesOnGroup(
                       m, Log(s, Call("OpenEventFilesOnGroup", tids[j], cpu, <<g>>)),
                       g, tids[j], cpu).s,
                     g, tids, j + 1, cpu)

\* The loop over groups of HandleCpuOnlineEvent (event_selection_set.cpp:666-681).
RECURSIVE OnlineGroups(_, _, _, _, _)
OnlineGroups(m, s, g, tids, cpu) ==
  IF g > Len(s.groups) THEN s
  ELSE IF IsUserSpaceSamplerGroup(s.groups[g]) THEN OnlineGroups(m, s, g + 1, tids, cpu)
  ELSE OnlineGroups(m, OnlineThreads(m, s, g, tids, 1, cpu), g + 1, tids, cpu)

\* Mutant of AttrId: attr_id advances once a group.
AttrId_PerGroup(groups, g, i) == g - 1

\* attr_id when the loops of event_selection_set.cpp:689-700 reach selection i of
\* group g: it starts at 0 and ++attr_id runs once for every selection passed.
RECURSIVE AttrId(_, _, _)
AttrId(groups, g, i) ==
  IF g = 1 THEN i - 1 ELSE Len(groups[g - 1]) + AttrId(groups, g - 1, i)

\* event_id_data of HandleCpuOnlineEvent (event_selection_set.cpp:688-700):
\* attr_id and event_fd->Id() pushed for every file on the cpu; the id of a
\* file is its position in event_files.
EventIdData(s, cpu) ==
  LET on_cpu == FilesOnCpu(s, cpu) IN
  Flatten([k \in DOMAIN on_cpu |-> <<AttrId(s.groups, on_cpu[k][1], on_cpu[k][2]),
                                     on_cpu[k][3]>>])

\* Mutant of HandleCpuOnlineEvent: an open that fails on the cpu is fatal.
HandleCpuOnlineEvent_OpenFatal(m, s, cpu) ==
  LET s2 == OnlineGroups(m, Log(s, Call("HandleCpuOnlineEvent", 0, cpu, <<>>)), 1,
                         Ascending(PrepareThreads(s.processes, s.threads)), cpu)
  IN  Return([ok |-> FilesOnCpu(s2, cpu) # <<>>, s |-> s2], cpu)

\* EventSelectionSet::HandleCpuOnlineEvent (event_selection_set.cpp:662-707): [ok, s].
HandleCpuOnlineEvent(m, s, cpu) ==
  LET s0 == Log(s, Call("HandleCpuOnlineEvent", 0, cpu, <<>>))
      s1 == [s0 EXCEPT !.groups = SetEnableOnExec(@, FALSE)]
      s2 == OnlineGroups(m, s1, 1, Ascending(PrepareThreads(s.processes, s.threads)), cpu)
  IN  IF s.for_stat_cmd THEN Return([ok |-> TRUE, s |-> s2], cpu)
      ELSE LET map == CreateMappedBufferForCpu(m, s2, cpu) IN
           IF ~map.ok THEN Return(map, cpu)
           ELSE LET callback == Try(Log(map.s, Call("record_callback_", 0, cpu,
                                                     EventIdData(map.s, cpu))))
                IN  Return([ok |-> callback.ok, s |-> callback.s], cpu)

\* The reads of ReadCounters (event_selection_set.cpp:469-475) in the order of
\* its loops, from visits[k] on: [ok, s, at], at the visit whose read failed.
RECURSIVE ReadFiles(_, _, _)
ReadFiles(s, visits, k) ==
  IF k > Len(visits) THEN [ok |-> TRUE, s |-> s, at |-> 0]
  ELSE LET id == visits[k][3]
           read == Try(Log(s, Call("ReadCounter", id, s.files[id].cpu, <<>>)))
       IN  IF ~read.ok THEN [ok |-> FALSE, s |-> read.s, at |-> k]
           ELSE ReadFiles(read.s, visits, k + 1)

\* Mutant of CountersInfoOf: only the files now open are reported.
CountersInfoOf_FreshOnly(s, g, i) ==
  [group_id |-> g - 1,
   event_name |-> s.groups[g][i].event_type_modifier.event_type.name,
   event_modifier |-> s.groups[g][i].event_type_modifier.modifier,
   counters |-> [k \in DOMAIN s.groups[g][i].event_fds |->
                   ReadCounter(s.files, s.groups[g][i].event_fds[k])]]

\* The CountersInfo ReadCounters builds for selection i of group g
\* (event_selection_set.cpp:464-476).
CountersInfoOf(s, g, i) ==
  [group_id |-> g - 1,
   event_name |-> s.groups[g][i].event_type_modifier.event_type.name,
   event_modifier |-> s.groups[g][i].event_type_modifier.modifier,
   counters |-> s.groups[g][i].hotplugged_counters \o
                  [k \in DOMAIN s.groups[g][i].event_fds |->
                     ReadCounter(s.files, s.groups[g][i].event_fds[k])]]

\* EventSelectionSet::ReadCounters (event_selection_set.cpp:460-480):
\* [ok, s, counters]; when a read fails, counters holds the selections before
\* the one whose file could not be read.
ReadCounters(s) ==
  LET visits == FilesInOrder(s.groups)
      r == ReadFiles(s, visits, 1)
      all == Flatten([g \in DOMAIN s.groups |->
                        [i \in DOMAIN s.groups[g] |-> CountersInfoOf(s, g, i)]])
  IN  IF r.ok THEN [ok |-> TRUE, s |-> r.s, counters |-> all]
      ELSE [ok |-> FALSE, s |-> r.s,
            counters |-> SubSeq(all, 1, AttrId(s.groups, visits[r.at][1], visits[r.at][2]))]

\* Whether DetectCpuHotplugEvents reacts to the cpu (event_selection_set.cpp:605-606).
IsMonitored_Always(s, cpu) == TRUE

IsMonitored(s, cpu) == s.monitored_cpus = {} \/ cpu \in s.monitored_cpus

\* The first loop of DetectCpuHotplugEvents (event_selection_set.cpp:603-613), from
\* online_cpus_[k] on: [ok, s].
RECURSIVE DetectOffline(_, _, _)
DetectOffline(s, new_cpus, k) ==
  IF k > Len(s.online_cpus) THEN [ok |-> TRUE, s |-> s]
  ELSE LET cpu == s.online_cpus[k] IN
       IF (\A n \in DOMAIN new_cpus : new_cpus[n] # cpu) /\ IsMonitored(s, cpu)
         THEN LET r == HandleCpuOfflineEvent(s, cpu) IN
              IF ~r.ok THEN r ELSE DetectOffline(r.s, new_cpus, k + 1)
         ELSE DetectOffline(s, new_cpus, k + 1)

\* The second loop of DetectCpuHotplugEvents (event_selection_set.cpp:614-625), from
\* new_cpus[k] on: [ok, s].
RECURSIVE DetectOnline(_, _, _, _)
DetectOnline(m, s, new_cpus, k) ==
  IF k > Len(new_cpus) THEN [ok |-> TRUE, s |-> s]
  ELSE LET cpu == new_cpus[k] IN
       IF (\A n \in DOMAIN s.online_cpus : s.online_cpus[n] # cpu) /\ IsMonitored(s, cpu)
         THEN LET r == HandleCpuOnlineEvent(m, s, cpu) IN
              IF ~r.ok THEN r ELSE DetectOnline(m, r.s, new_cpus, k + 1)
         ELSE DetectOnline(m, s, new_cpus, k + 1)

\* EventSelectionSet::DetectCpuHotplugEvents (event_selection_set.cpp:601-628):
\* [ok, s, failed (the handler that returned false)].  new_cpus is what
\* GetOnlineCpus returned.
DetectCpuHotplugEvents(m, s, new_cpus) ==
  LET off == DetectOffline(s, new_cpus, 1) IN
  IF ~off.ok THEN [ok |-> FALSE, s |-> off.s, failed |-> "HandleCpuOfflineEvent"]
  ELSE LET on == DetectOnline(m, off.s, new_cpus, 1) IN
       IF ~on.ok THEN [ok |-> FALSE, s |-> on.s, failed |-> "HandleCpuOnlineEvent"]
       ELSE [ok |-> TRUE, s |-> [on.s EXCEPT !.online_cpus = new_cpus], failed |-> ""]

\* EventSelectionSet::HandleCpuHotplugEvents (event_selection_set.cpp:589-599): [ok, s].
HandleCpuHotplugEvents(m, s, monitored_cpus) ==
  LET s1 == [s EXCEPT !.monitored_cpus = @ \cup monitored_cpus,
                      !.online_cpus = Ascending(m.online)]
      add == Try(s1)
  IN  [ok |-> add.ok, s |-> add.s]

\* The loop of MmapEventFiles(size_t, bool) (event_selection_set.cpp:504-520), from
\* visits[k] on, with cpu_map as a function from cpus to files: [ok, s].
RECURSIVE MmapFiles(_, _, _, _, _, _)
MmapFiles(m, s, mmap_pages, visits, k, cpu_map) ==
  IF k > Len(visits) THEN [ok |-> TRUE, s |-> s]
  ELSE
    LET id == visits[k][3]
        cpu == s.files[id].cpu
    IN  IF cpu \in DOMAIN cpu_map
          THEN LET share == Try(s) IN
               IF ~share.ok THEN [ok |-> FALSE, s |-> share.s]
               ELSE MmapFiles(m, [share.s EXCEPT !.files[id].buffer = "shared",
                                                 !.files[id].owner = cpu_map[cpu]],
                              mmap_pages, visits, k + 1, cpu_map)
          ELSE IF mmap_pages > m.mmap_limit THEN [ok |-> FALSE, s |-> s]
          ELSE MmapFiles(m, [s EXCEPT !.files[id].buffer = "own", !.files[id].owner = id],
                         mmap_pages, visits, k + 1,
                         [c \in DOMAIN cpu_map \cup {cpu} |->
                            IF c = cpu THEN id ELSE cpu_map[c]])

\* EventSelectionSet::MmapEventFiles(size_t, bool) (event_selection_set.cpp:501-522).
MmapEventFilesOnce(m, s, mmap_pages) ==
  MmapFiles(m, s, mmap_pages, FilesInOrder(s.groups), 1, <<>>)

\* event_fd->DestroyMappedBuffer() for every file (event_selection_set.cpp:490-496).
DestroyMappedBuffers(s) ==
  LET visits == FilesInOrder(s.groups)
      ids == {visits[k][3] : k \in DOMAIN visits}
  IN  [s EXCEPT !.files = [id \in DOMAIN s.files |->
                             IF id \in ids
                               THEN [s.files[id] EXCEPT !.buffer = "none", !.owner = 0]
                               ELSE s.files[id]]]

\* EventSelectionSet::MmapEventFiles(size_t, size_t) (event_selection_set.cpp:482-499),
\* from the size i on: [ok, s].  i >>= 1 never takes i below min_mmap_pages = 0.
RECURSIVE MmapEventFiles(_, _, _, _)
MmapEventFiles(m, s, min_mmap_pages, i) ==
  IF ~(i >= min_mmap_pages) THEN [ok |-> FALSE, s |-> s]
  ELSE LET r == MmapEventFilesOnce(m, s, i) IN
       IF r.ok THEN [ok |-> TRUE, s |-> [r.s EXCEPT !.mmap_pages = i]]
       ELSE MmapEventFiles(m, DestroyMappedBuffers(r.s), min_mmap_pages, i \div 2)

\* The loops of PrepareToReadMmapEventData (event_selection_set.cpp:527-544), over
\* the files with a mapped buffer, from visits[k] on: [ok, s].
RECURSIVE StartPollingFiles(_, _, _)
StartPollingFiles(s, visits, k) ==
  IF k > Len(visits) THEN [ok |-> TRUE, s |-> s]
  ELSE LET id == visits[k][3]
           poll == Try(s)
       IN  IF s.files[id].buffer = "none" THEN StartPollingFiles(s, visits, k + 1)
           ELSE IF ~poll.ok THEN [ok |-> FALSE, s |-> poll.s]
           ELSE LET g == visits[k][1]
                    i == visits[k][2]
                    event_fds == s.groups[g][i].event_fds
                    at == CHOOSE n \in DOMAIN event_fds : event_fds[n] = id
                IN  StartPollingFiles(
                      [poll.s EXCEPT !.files[id].polling = TRUE,
                                     !.files[id].callback =
                                        CapturedByReference(g, i, at, event_fds)],
                      visits, k + 1)

\* EventSelectionSet::PrepareToReadMmapEventData (event_selection_set.cpp:524-550):
\* [ok, s]; the in-place sampler of a selection is polled after its files.
PrepareToReadMmapEventData(s) ==
  LET files == StartPollingFiles(s, FilesInOrder(s.groups), 1)
      sampler == Try(files.s)
      has_sampler == \E gs \in SelectionIndexes(s.groups) :
                       s.groups[gs[1]][gs[2]].inplace_sampler
  IN  IF ~files.ok THEN files
      ELSE IF has_sampler /\ ~sampler.ok THEN [ok |-> FALSE, s |-> sampler.s]
      ELSE [ok |-> TRUE, s |-> [(IF has_sampler THEN sampler.s ELSE files.s)
                                  EXCEPT !.loop = TRUE]]

\* ---- the selection set at work ----
\* The machine as the set sees it now.
Machine == [machine EXCEPT !.online = kernel_online]

\* The set as the handlers read and leave it; fail_at numbers the failing call.
SetState(fail_at) ==
  [groups |-> groups_, files |-> event_files, processes |-> processes_,
   threads |-> threads_, for_stat_cmd |-> for_stat_cmd_, mmap_pages |-> mmap_pages_,
   loop |-> loop_, online_cpus |-> online_cpus_, monitored_cpus |-> monitored_cpus_,
   calls |-> 0, fail_at |-> fail_at, undefined |-> FALSE, log |-> <<>>]

\* The handler returned ok and left the set as s.
SetBecomes(s, ok, next_phase) ==
  /\ groups_' = s.groups
  /\ event_files' = s.files
  /\ mmap_pages_' = s.mmap_pages
  /\ loop_' = s.loop
  /\ online_cpus_' = s.online_cpus
  /\ monitored_cpus_' = s.monitored_cpus
  /\ set_phase' = IF s.undefined THEN "undefined" ELSE IF ok THEN next_phase ELSE "failed"
  /\ set_log' = s.log
  /\ UNCHANGED <<for_stat_cmd_, processes_, threads_, machine>>

\* A set as constructed, on some machine, for some targets.
SetInit ==
  /\ for_stat_cmd_ \in BOOLEAN
  /\ machine \in Machines
  /\ kernel_online \in {Cpus, {0}}
  /\ \E t \in Targets : processes_ = t.processes /\ threads_ = t.threads
  /\ groups_ = <<>>
  /\ event_files = <<>>
  /\ mmap_pages_ = 0
  /\ loop_ = FALSE
  /\ online_cpus_ = <<>>
  /\ monitored_cpus_ = {}
  /\ set_phase = "setup"
  /\ set_op = [op |-> "new"]
  /\ pre_union = <<>>
  /\ scans = 0
  /\ set_log = <<>>

\* AddEventGroup(event_names), while the set is being set up; the operation is
\* remembered as op, with its result.
AddEventGroupAs(event_names, op) ==
  /\ set_phase = "setup"
  /\ Cardinality(SelectionIndexes(groups_)) + Len(event_names) <= MaxSelections
  /\ LET r == AddEventGroup(groups_, for_stat_cmd_, machine, event_names) IN
     /\ groups_' = r.groups
     /\ pre_union' = IF r.ok THEN r.pushed ELSE pre_union
     /\ set_op' = [op EXCEPT !.ok = r.ok]
  /\ UNCHANGED <<for_stat_cmd_, machine, kernel_online, processes_, threads_,
                 event_files, mmap_pages_, loop_, online_cpus_, monitored_cpus_,
                 set_phase, scans, set_log>>
  /\ UNCHANGED setOthers

CallAddEventGroup(event_names) ==
  AddEventGroupAs(event_names, [op |-> "AddEventGroup", ok |-> FALSE])

\* AddEventGroup(event_names), remembered with the names it was given.
CallAddEventGroupOf(event_names) ==
  AddEventGroupAs(event_names,
                  [op |-> "AddEventGroup", ok |-> FALSE, event_names |-> event_names])

\* EventSelectionSet::AddEventType (event_selection_set.cpp:106-108), while the
\* set is being set up: AddEventGroup of the one name.
CallAddEventType(event_name) ==
  /\ set_phase = "setup"
  /\ Cardinality(SelectionIndexes(groups_)) + 1 <= MaxSelections
  /\ LET r == AddEventGroup(groups_, for_stat_cmd_, machine, <<event_name>>) IN
     /\ groups_' = r.groups
     /\ pre_union' = IF r.ok THEN r.pushed ELSE pre_union
     /\ set_op' = [op |-> "AddEventType", ok |-> r.ok, event_name |-> event_name]
  /\ UNCHANGED <<for_stat_cmd_, machine, kernel_online, processes_, threads_,
                 event_files, mmap_pages_, loop_, online_cpus_, monitored_cpus_,
                 set_phase, scans, set_log>>
  /\ UNCHANGED setOthers

\* A set-wide attribute setter returned ok and left the groups as given.
SetterLeaves(op, ok, groups) ==
  /\ set_phase = "setup"
  /\ groups_' = groups
  /\ set_op' = [op |-> op, ok |-> ok]
  /\ UNCHANGED <<for_stat_cmd_, machine, kernel_online, processes_, threads_,
                 event_files, mmap_pages_, loop_, online_cpus_, monitored_cpus_,
                 set_phase, pre_union, scans, set_log>>
  /\ UNCHANGED setOthers

CallSetBranchSampling(branch_sample_type) ==
  LET r == SetBranchSampling(groups_, machine, branch_sample_type)
  IN  SetterLeaves("SetBranchSampling", r.ok, r.groups)

CallEnableFpCallChainSampling ==
  SetterLeaves("EnableFpCallChainSampling", TRUE, EnableFpCallChainSampling(groups_))

CallEnableDwarfCallChainSampling ==
  LET r == EnableDwarfCallChainSampling(groups_, machine, 8192)
  IN  SetterLeaves("EnableDwarfCallChainSampling", r.ok, r.groups)

SelectionNext ==
  \/ \E n \in 1..MaxGroupSize : \E event_names \in SeqOfLen(EventNames, n) :
       CallAddEventGroup(event_names)
  \/ \E branch_sample_type \in {{}, {"ANY"}, {"USER"}} :
       CallSetBranchSampling(branch_sample_type)
  \/ CallEnableFpCallChainSampling
  \/ CallEnableDwarfCallChainSampling

InitSelection ==
  /\ SetInit /\ kernel_online = Cpus /\ threads_ = {-1}
  /\ CacheIdle /\ ChainIdle /\ CodecIdle /\ LoopIdle /\ ReportIdle

SpecSelection == InitSelection /\ [][SelectionNext]_vars

\* Groups of events added to a set, some of them refused, between calls of a
\* setter that changes the attributes of the selections there are.
GroupsNext ==
  \/ \E n \in 1..MaxGroupSize : \E event_names \in SeqOfLen(EventNames, n) :
       CallAddEventGroupOf(event_names)
  \/ CallEnableFpCallChainSampling

SpecGroups == InitSelection /\ [][GroupsNext]_vars

\* The stat and record commands given clock and cycle events with modifiers.
ClockEventNames == {"cpu-clock:u", "cpu-clock:k", "task-clock:u", "task-clock:k",
                    "cpu-cycles:u", "cpu-cycles:k"}

ModifierNext == \E event_name \in ClockEventNames : CallAddEventType(event_name)

SpecModifier == InitSelection /\ [][ModifierNext]_vars

(***************************************************************************)
(* Properties of the selection set.                                        *)
(***************************************************************************)
SampleTypeOf(groups, gs) == groups[gs[1]][gs[2]].event_attr.sample_type

\* The bitwise OR of the sample_type masks the selections had before the last
\* union.
PreUnionOr == UNION {SampleTypeOf(pre_union, gs) : gs \in SelectionIndexes(pre_union)}

UniformSampleType ==
  \A gs1, gs2 \in SelectionIndexes(groups_) :
    SampleTypeOf(groups_, gs1) = SampleTypeOf(groups_, gs2)

\* C4 as stated: all selections have the same sample_type, equal to the OR of
\* the masks they had before the last union.
C4_UniformAndOrOfLastUnion ==
  /\ UniformSampleType
  /\ \A gs \in SelectionIndexes(groups_) : SampleTypeOf(groups_, gs) = PreUnionOr

\* C4 amended: all selections always have the same sample_type; right after a
\* successful AddEventGroup it is the OR of the masks they had before its union,
\* and a setter that runs later only adds or removes, for all selections alike,
\* the bits it stands for (CALLCHAIN, REGS_USER, STACK_USER, BRANCH_STACK).
C4_UniformAndOrAfterAdd ==
  /\ UniformSampleType
  /\ \A gs \in SelectionIndexes(groups_) :
       /\ (set_op.op = "AddEventGroup" /\ set_op.ok) => SampleTypeOf(groups_, gs) = PreUnionOr
       /\ PreUnionOr \ {"BRANCH_STACK"} \subseteq SampleTypeOf(groups_, gs)
       /\ SampleTypeOf(groups_, gs) \subseteq
            PreUnionOr \cup {"CALLCHAIN", "REGS_USER", "STACK_USER", "BRANCH_STACK"}

\* C4 witness: a successful AddEventGroup has just united masks that differed (one
\* with CALLCHAIN, one with RAW), and every selection now has both bits.
C4_Witness ==
  /\ set_op.op = "AddEventGroup" /\ set_op.ok
  /\ \E gs1, gs2 \in SelectionIndexes(pre_union) :
       /\ SampleTypeOf(pre_union, gs1) # SampleTypeOf(pre_union, gs2)
       /\ "CALLCHAIN" \in SampleTypeOf(pre_union, gs1)
       /\ "RAW" \in SampleTypeOf(pre_union, gs2)
  /\ UniformSampleType
  /\ \A gs \in SelectionIndexes(groups_) : {"CALLCHAIN", "RAW"} \subseteq SampleTypeOf(groups_, gs)

\* ---- the set at work on event files ----
MaxFailAt == 3          \* the calls of one handler that can fail are numbered 1..MaxFailAt
MaxMmapPages == 4       \* the largest buffer size asked for, in pages

\* The handlers below leave these alone.
SetupUnchanged == UNCHANGED <<kernel_online, pre_union, scans>>

\* OpenEventFiles(on_cpus), once, after setup.
CallOpenEventFiles(on_cpus) ==
  /\ set_phase = "setup"
  /\ groups_ # <<>>
  /\ \E r \in {OpenEventFiles(Machine, SetState(0), on_cpus)} :
     /\ SetBecomes(r.s, r.ok, "opened")
     /\ set_op' = [op |-> "OpenEventFiles", ok |-> r.ok, on_cpus |-> on_cpus]
  /\ SetupUnchanged
  /\ UNCHANGED setOthers

\* MmapEventFiles(min_mmap_pages, max_mmap_pages), by the record command.
CallMmapEventFiles(min_mmap_pages, max_mmap_pages) ==
  /\ set_phase = "opened"
  /\ ~for_stat_cmd_
  /\ \E r \in {MmapEventFiles(Machine, SetState(0), min_mmap_pages, max_mmap_pages)} :
     /\ SetBecomes(r.s, r.ok, "mapped")
     /\ set_op' = [op |-> "MmapEventFiles", ok |-> r.ok]
  /\ SetupUnchanged
  /\ UNCHANGED setOthers

\* PrepareToReadMmapEventData(loop, callback); the call numbered fail_at fails.
CallPrepareToReadMmapEventData(fail_at) ==
  /\ set_phase = "mapped"
  /\ \E r \in {PrepareToReadMmapEventData(SetState(fail_at))} :
     /\ SetBecomes(r.s, r.ok, "polling")
     /\ set_op' = [op |-> "PrepareToReadMmapEventData", ok |-> r.ok]
  /\ SetupUnchanged
  /\ UNCHANGED setOthers

\* HandleCpuHotplugEvents(loop, monitored_cpus, interval): the stat command calls
\* it after opening, the record command after PrepareToReadMmapEventData.
CallHandleCpuHotplugEvents(monitored_cpus, fail_at) ==
  /\ set_phase = IF for_stat_cmd_ THEN "opened" ELSE "polling"
  /\ \E r \in {HandleCpuHotplugEvents(Machine, SetState(fail_at), monitored_cpus)} :
     /\ SetBecomes(r.s, r.ok, "monitoring")
     /\ set_op' = [op |-> "HandleCpuHotplugEvents", ok |-> r.ok]
  /\ SetupUnchanged
  /\ UNCHANGED setOthers

\* The periodic event fires: DetectCpuHotplugEvents(); the call numbered fail_at
\* fails.
CallDetectCpuHotplugEvents(fail_at) ==
  /\ set_phase = "monitoring"
  /\ scans < MaxScans
  /\ \E r \in {DetectCpuHotplugEvents(Machine, SetState(fail_at), Ascending(kernel_online))} :
     /\ SetBecomes(r.s, r.ok, "monitoring")
     /\ set_op' = [op |-> "DetectCpuHotplugEvents", ok |-> r.ok, failed |-> r.failed]
  /\ scans' = scans + 1
  /\ UNCHANGED <<kernel_online, pre_union>>
  /\ UNCHANGED setOthers

\* The stat command reads the counters, while the files are open.
CallReadCounters(fail_at) ==
  /\ for_stat_cmd_
  /\ set_phase \in {"opened", "monitoring"}
  /\ \E r \in {ReadCounters(SetState(fail_at))} :
     /\ SetBecomes(r.s, r.ok, set_phase)
     /\ set_op' = [op |-> "ReadCounters", ok |-> r.ok, counters |-> r.counters]
  /\ UNCHANGED <<kernel_online, pre_union, scans>>
  /\ UNCHANGED setOthers

\* Between two scans the machine takes cpus offline and brings cpus back (never
\* cpu 0, the boot cpu); online is the set of cpus the next scan will find.
CpuHotplug(online) ==
  /\ set_phase = "monitoring"
  /\ scans < MaxScans
  /\ Ascending(kernel_online) = online_cpus_
  /\ 0 \in online /\ online # kernel_online
  /\ kernel_online' = online
  /\ UNCHANGED <<for_stat_cmd_, groups_, event_files, processes_, threads_, mmap_pages_,
                 loop_, online_cpus_, monitored_cpus_, machine, set_phase, set_op,
                 pre_union, scans, set_log>>
  /\ UNCHANGED setOthers

\* The event groups the commands below are run with: a hardware event, a
\* software event with a modifier and the user-space sampler, alone and as the
\* two-event group of the hardware and the software event.
FileGroups ==
  {<<"cpu-cycles">>, <<"cpu-clock:u">>, <<"inplace-sampler">>, <<"cpu-cycles", "cpu-clock:u">>}

FilesNext ==
  \/ \E event_names \in FileGroups : CallAddEventGroup(event_names)
  \/ \E on_cpus \in {<<>>, <<-1>>, <<MaxCpu>>} : CallOpenEventFiles(on_cpus)
  \/ \E min_mmap_pages \in {1, 4} : CallMmapEventFiles(min_mmap_pages, MaxMmapPages)
  \/ \E fail_at \in 0..MaxFailAt : CallPrepareToReadMmapEventData(fail_at)
  \/ \E monitored_cpus \in {{}, {MaxCpu}} : \E fail_at \in 0..1 :
       CallHandleCpuHotplugEvents(monitored_cpus, fail_at)
  \/ \E fail_at \in 0..MaxFailAt : CallDetectCpuHotplugEvents(fail_at)
  \/ \E online \in SUBSET Cpus : CpuHotplug(online)
  \/ \E fail_at \in 0..1 : CallReadCounters(fail_at)

\* ---- the loop of MmapEventFiles, one iteration at a time ----
\* MmapEventFiles(min_mmap_pages, max_mmap_pages) is entered
\* (event_selection_set.cpp:482-484): i = max_mmap_pages.  tried is the size of
\* the last attempt (-1 before the first), round the parity of the iterations;
\* with fail_at = 1 the kernel refuses the first ShareMappedBuffer of every
\* attempt.
EnterMmapEventFiles(min_mmap_pages, max_mmap_pages, fail_at) ==
  /\ set_phase = "opened"
  /\ ~for_stat_cmd_
  /\ set_phase' = "mapping"
  /\ set_op' = [op |-> "MmapEventFiles", min_mmap_pages |-> min_mmap_pages,
                max_mmap_pages |-> max_mmap_pages, i |-> max_mmap_pages,
                tried |-> -1, round |-> 0, fail_at |-> fail_at]
  /\ UNCHANGED <<for_stat_cmd_, groups_, event_files, processes_, threads_, mmap_pages_,
                 loop_, online_cpus_, monitored_cpus_, machine, set_log>>
  /\ SetupUnchanged
  /\ UNCHANGED setOthers

\* One evaluation of the loop condition i >= min_mmap_pages and, when it holds,
\* one iteration of the loop (event_selection_set.cpp:484-497): an attempt with i
\* pages that returns true, or fails, destroys the buffers and leaves i >>= 1.
MmapEventFilesIteration ==
  /\ set_phase = "mapping"
  /\ \E i \in {set_op.i} :
       IF ~(i >= set_op.min_mmap_pages)
         THEN /\ \E s \in {SetState(0)} : SetBecomes(s, FALSE, "mapped")
              /\ set_op' = [set_op EXCEPT !.round = 1 - @]
       ELSE \E r \in {MmapEventFilesOnce(Machine, SetState(set_op.fail_at), i)} :
         IF r.ok
           THEN /\ \E s \in {[r.s EXCEPT !.mmap_pages = i]} : SetBecomes(s, TRUE, "mapped")
                /\ set_op' = [set_op EXCEPT !.tried = i, !.round = 1 - @]
           ELSE /\ \E s \in {DestroyMappedBuffers(r.s)} : SetBecomes(s, TRUE, "mapping")
                /\ set_op' = [set_op EXCEPT !.tried = i, !.i = i \div 2,
                                            !.round = 1 - @]
  /\ SetupUnchanged
  /\ UNCHANGED setOthers

\* The buffer sizes the kernel maps at most: none at all (no memory may be
\* locked), one page, four pages.
MmapLimits == {-1, 1, 4}

\* One event, opened for the threads of the target on any cpu or on cpu 0.
MmapNext ==
  \/ CallAddEventGroup(<<"cpu-cycles">>)
  \/ \E on_cpus \in {<<-1>>, <<0>>} : CallOpenEventFiles(on_cpus)
  \/ \E min_mmap_pages \in 0..MaxMmapPages : \E fail_at \in 0..1 :
       EnterMmapEventFiles(min_mmap_pages, MaxMmapPages, fail_at)
  \/ MmapEventFilesIteration

InitMmap ==
  /\ for_stat_cmd_ = FALSE
  /\ \E m \in Machines : \E limit \in MmapLimits :
       machine = [m EXCEPT !.mmap_limit = limit]
  /\ kernel_online \in {Cpus, {0}}
  /\ \E t \in Targets : processes_ = t.processes /\ threads_ = t.threads
  /\ groups_ = <<>> /\ event_files = <<>> /\ mmap_pages_ = 0 /\ loop_ = FALSE
  /\ online_cpus_ = <<>> /\ monitored_cpus_ = {}
  /\ set_phase = "setup" /\ set_op = [op |-> "new"] /\ pre_union = <<>>
  /\ scans = 0 /\ set_log = <<>>
  /\ CacheIdle /\ ChainIdle /\ CodecIdle /\ LoopIdle /\ ReportIdle

\* The running program gets to every iteration of the loop.
SpecMmap == InitMmap /\ [][MmapNext]_vars /\ WF_vars(MmapEventFilesIteration)

\* ---- hotplug scans of a set that monitors some cpus ----
\* A recording or a stat run of one event on all online cpus, with hotplug
\* scans that monitor every cpu, cpu 0 only or the last cpu only.
MonitorNext ==
  \/ CallAddEventGroup(<<"cpu-cycles">>)
  \/ CallOpenEventFiles(<<>>)
  \/ CallMmapEventFiles(1, MaxMmapPages)
  \/ CallPrepareToReadMmapEventData(0)
  \/ \E monitored_cpus \in {{}, {0}, {MaxCpu}} :
       CallHandleCpuHotplugEvents(monitored_cpus, 0)
  \/ \E fail_at \in 0..MaxFailAt : CallDetectCpuHotplugEvents(fail_at)
  \/ \E online \in SUBSET Cpus : CpuHotplug(online)

InitFiles == SetInit /\ CacheIdle /\ ChainIdle /\ CodecIdle /\ LoopIdle /\ ReportIdle

SpecFiles == InitFiles /\ [][FilesNext]_vars

SpecMonitor == InitFiles /\ [][MonitorNext]_vars

\* ---- cpus that change before the hotplug scans start ----
\* The machine takes cpus offline or brings cpus back (never cpu 0) after
\* OpenEventFiles read GetOnlineCpus (event_selection_set.cpp:417) and before
\* HandleCpuHotplugEvents reads it (event_selection_set.cpp:593).
CpuHotplugBeforeMonitoring(online) ==
  /\ set_phase \in {"opened", "mapped", "polling"}
  /\ 0 \in online /\ online # kernel_online
  /\ kernel_online' = online
  /\ UNCHANGED <<for_stat_cmd_, groups_, event_files, processes_, threads_, mmap_pages_,
                 loop_, online_cpus_, monitored_cpus_, machine, set_phase, set_op,
                 pre_union, scans, set_log>>
  /\ UNCHANGED setOthers

\* A recording or a stat run of one event on all online cpus, on a machine whose
\* cpus come and go from the moment the files are open.
HotplugNext ==
  \/ CallAddEventGroup(<<"cpu-cycles">>)
  \/ CallOpenEventFiles(<<>>)
  \/ CallMmapEventFiles(1, MaxMmapPages)
  \/ CallPrepareToReadMmapEventData(0)
  \/ \E online \in SUBSET Cpus : CpuHotplugBeforeMonitoring(online)
  \/ \E monitored_cpus \in {{}, {MaxCpu}} : CallHandleCpuHotplugEvents(monitored_cpus, 0)
  \/ \E fail_at \in 0..MaxFailAt : CallDetectCpuHotplugEvents(fail_at)
  \/ \E online \in SUBSET Cpus : CpuHotplug(online)

SpecHotplug == InitFiles /\ [][HotplugNext]_vars

\* ---- the readable callbacks of the event files ----
\* The EventFd the closure of the file hands to ReadMmapEventDataForFd when it
\* runs, 0 when what it reads is no unique_ptr of the vector any more.  A closure
\* that holds the pointer gives it.  A closure that holds a reference to element
\* k of event_fds reads what is at that place now: after an erase before it the
\* element that moved there, or one past the last element; after a push_back
\* that reallocated the vector, freed storage.  Whether a push_back reallocates
\* is up to the capacity the library chose.
CallbackTargets(groups, files, id) ==
  LET c == files[id].callback IN
  CASE c.by = "value" -> {c.fd}
    [] c.by = "reference" ->
         LET now == groups[c.g][c.i].event_fds
             appended == \E n \in DOMAIN now :
                           \A o \in DOMAIN c.event_fds : c.event_fds[o] # now[n]
             in_place == IF c.k <= Len(now) THEN now[c.k] ELSE 0
         IN  IF now = c.event_fds THEN {id}
             ELSE {in_place} \cup (IF appended THEN {0} ELSE {})
    [] OTHER -> {}

\* The event loop finds the file readable and runs the closure registered for
\* it, which calls ReadMmapEventDataForFd(event_fd).
ReadableCallback(id, event_fd) ==
  /\ set_phase \in {"polling", "monitoring"}
  /\ id \in DOMAIN event_files /\ event_files[id].polling
  /\ event_fd \in CallbackTargets(groups_, event_files, id)
  /\ set_op' = [op |-> "readable", id |-> id, event_fd |-> event_fd]
  /\ set_log' = IF event_fd = 0 THEN <<>>
                ELSE <<Call("ReadMmapEventDataForFd", event_fd, event_files[event_fd].cpu, <<>>)>>
  /\ set_phase' = IF event_fd = 0 THEN "undefined" ELSE set_phase
  /\ UNCHANGED <<for_stat_cmd_, groups_, event_files, processes_, threads_, mmap_pages_,
                 loop_, online_cpus_, monitored_cpus_, machine>>
  /\ SetupUnchanged
  /\ UNCHANGED setOthers

\* A recording of one event on the online cpus, with hotplug scans and readable
\* files.
PollNext ==
  \/ CallAddEventGroup(<<"cpu-cycles">>)
  \/ CallOpenEventFiles(<<>>)
  \/ CallMmapEventFiles(1, MaxMmapPages)
  \/ CallPrepareToReadMmapEventData(0)
  \/ CallHandleCpuHotplugEvents({}, 0)
  \/ CallDetectCpuHotplugEvents(0)
  \/ \E online \in SUBSET Cpus : CpuHotplug(online)
  \/ \E id \in DOMAIN event_files : \E event_fd \in 0..Len(event_files) :
       ReadableCallback(id, event_fd)

InitPoll == InitFiles /\ ~for_stat_cmd_

SpecPoll == InitPoll /\ [][PollNext]_vars

\* ---- a cpu that comes online and refuses an event ----
\* A machine whose last cpu has no counter for cpu-clock: perf_event_open fails
\* for that event on that cpu and works everywhere else.
RefusingMachine ==
  [unsupported |-> {}, branch_sampling |-> TRUE, dwarf_sampling |-> TRUE,
   inplace_sampler |-> TRUE, mmap_limit |-> 4,
   refuses |-> {<<"cpu-clock", MaxCpu>>}, online |-> {}]

\* Two groups of one event, opened on the online cpus or on the last cpu only,
\* then hotplug scans of every cpu.
OnlineNext ==
  \/ \E event_names \in {<<"cpu-clock">>, <<"cpu-cycles">>} : CallAddEventGroup(event_names)
  \/ \E on_cpus \in {<<>>, <<MaxCpu>>} : CallOpenEventFiles(on_cpus)
  \/ CallMmapEventFiles(1, MaxMmapPages)
  \/ CallPrepareToReadMmapEventData(0)
  \/ CallHandleCpuHotplugEvents({}, 0)
  \/ \E fail_at \in 0..MaxFailAt : CallDetectCpuHotplugEvents(fail_at)
  \/ \E online \in SUBSET Cpus : CpuHotplug(online)

InitOnline ==
  /\ for_stat_cmd_ \in BOOLEAN
  /\ machine = RefusingMachine
  /\ kernel_online \in {Cpus, {0}}
  /\ \E t \in Targets : processes_ = t.processes /\ threads_ = t.threads
  /\ groups_ = <<>> /\ event_files = <<>> /\ mmap_pages_ = 0 /\ loop_ = FALSE
  /\ online_cpus_ = <<>> /\ monitored_cpus_ = {}
  /\ set_phase = "setup" /\ set_op = [op |-> "new"] /\ pre_union = <<>>
  /\ scans = 0 /\ set_log = <<>>
  /\ CacheIdle /\ ChainIdle /\ CodecIdle /\ LoopIdle /\ ReportIdle

SpecOnline == InitOnline /\ [][OnlineNext]_vars

(***************************************************************************)
(* Properties of the event files.                                          *)
(***************************************************************************)
\* The event files selection i of group g holds, in order.
FilesOf(g, i) == [k \in DOMAIN groups_[g][i].event_fds |->
                    event_files[groups_[g][i].event_fds[k]]]

\* The (tid, cpu) slots selection i of group g holds event files for, in order.
SlotsOf(g, i) == [k \in DOMAIN groups_[g][i].event_fds |->
                    <<FilesOf(g, i)[k].tid, FilesOf(g, i)[k].cpu>>]

TargetThreads == PrepareThreads(processes_, threads_)

\* The cpus OpenEventFiles(on_cpus) tries.
CpusTried(on_cpus) ==
  IF on_cpus # <<>> THEN {on_cpus[n] : n \in DOMAIN on_cpus} ELSE kernel_online

\* The kernel refuses some event of group g for tid on every cpu tried.
FailsOnEveryCpu(g, tid, on_cpus) ==
  \A cpu \in CpusTried(on_cpus) :
    \E i \in DOMAIN groups_[g] : ~KernelOpens(Machine, groups_[g][i], tid, cpu)

\* C5: OpenEventFiles returns true only if every selection of every non-sampler
\* group holds, for every target thread (threads_ and the threads of processes_),
\* an open event file on some cpu; and it returns false when, for some non-sampler
\* group and target thread, the open fails on every cpu.
C5_OpenEventFilesNeedsFilePerThread ==
  set_op.op = "OpenEventFiles" =>
    \A g \in DOMAIN groups_ : ~IsUserSpaceSamplerGroup(groups_[g]) =>
      \A tid \in TargetThreads :
        /\ set_op.ok =>
             \A i \in DOMAIN groups_[g] : \E k \in DOMAIN FilesOf(g, i) :
               FilesOf(g, i)[k].tid = tid /\ FilesOf(g, i)[k].open
        /\ FailsOnEveryCpu(g, tid, set_op.on_cpus) => ~set_op.ok

\* C5 witness: OpenEventFiles returned true for a two-event group and two target
\* threads although the kernel refused the group on one of the cpus.
C5_Witness ==
  /\ set_op.op = "OpenEventFiles" /\ set_op.ok
  /\ Cardinality(TargetThreads) = 2
  /\ \E g \in DOMAIN groups_ :
       /\ Len(groups_[g]) = 2
       /\ \E cpu \in CpusTried(set_op.on_cpus) : \A tid \in TargetThreads :
            \E i \in DOMAIN groups_[g] : ~KernelOpens(Machine, groups_[g][i], tid, cpu)
       /\ \A tid \in TargetThreads : \E k \in DOMAIN FilesOf(g, 2) :
            FilesOf(g, 2)[k].tid = tid /\ FilesOf(g, 2)[k].open

\* C6: the event file of the first selection of a group was opened with no group
\* leader, and the event file of every later selection with the first selection's
\* event file for the same (tid, cpu) slot as its group leader.
C6_LaterSelectionsFollowLeader ==
  \A g \in DOMAIN groups_ : \A i \in DOMAIN groups_[g] : \A k \in DOMAIN FilesOf(g, i) :
    IF i = 1 THEN FilesOf(g, i)[k].group_fd = 0
    ELSE /\ k \in DOMAIN groups_[g][1].event_fds
         /\ FilesOf(g, i)[k].group_fd = groups_[g][1].event_fds[k]

\* All selections of a group hold event files for the same list of slots.
SameSlotsInGroup ==
  \A g \in DOMAIN groups_ : \A i \in DOMAIN groups_[g] : SlotsOf(g, i) = SlotsOf(g, 1)

\* An event file is open exactly when one selection holds it, once.
OpenFilesAreHeld ==
  LET visits == FilesInOrder(groups_) IN
  \A id \in DOMAIN event_files :
    Cardinality({k \in DOMAIN visits : visits[k][3] = id}) =
      IF event_files[id].open THEN 1 ELSE 0

\* C7: opening a group on a slot is all-or-nothing, the files of a refused slot
\* are closed, and after every open, offline or online operation that ran to its
\* end all selections of one group hold event files for the same list of slots.
C7_GroupSlotAllOrNothing ==
  /\ OpenFilesAreHeld
  /\ ~(set_op.op = "DetectCpuHotplugEvents" /\ set_op.failed = "HandleCpuOfflineEvent")
       => SameSlotsInGroup

\* C7 witness: after an offline and an online operation that closed and reopened
\* the files of a slot, a two-event group holds files while the file opened for
\* its first event on a slot the kernel refused to its second event is closed.
C7_Witness ==
  /\ set_op.op = "DetectCpuHotplugEvents" /\ set_op.ok
  /\ scans = 2
  /\ \E id1, id2 \in DOMAIN event_files :
       /\ ~event_files[id1].open /\ event_files[id2].open
       /\ event_files[id1].name = event_files[id2].name
       /\ event_files[id1].tid = event_files[id2].tid
       /\ event_files[id1].cpu = event_files[id2].cpu
  /\ \E g \in DOMAIN groups_ :
       /\ Len(groups_[g]) = 2
       /\ SlotsOf(g, 1) # <<>>
       /\ SlotsOf(g, 2) = SlotsOf(g, 1)
       /\ \E id \in DOMAIN event_files :
            /\ ~event_files[id].open
            /\ event_files[id].name = groups_[g][1].event_type_modifier.name
            /\ <<groups_[g][2].event_type_modifier.name, event_files[id].cpu>>
                  \in machine.refuses

(***************************************************************************)
(*                     IOEventLoop (IOEventLoop.cpp)                       *)
(***************************************************************************)
\* Bounds of the loop model.
MaxEvents == 2          \* registrations on one loop
MaxRuns == 2            \* RunLoop calls on one loop
MaxDispatch == 2        \* invocations of one callback of unknown behaviour

\* The invocation on which the counting callbacks of IOEventLoop_test.cpp call
\* ExitLoop.
ExitAt == 100

\* The loop object: [ebase_, has_error_, events_, event_break].
Loop == [ebase_ |-> ebase_, has_error_ |-> has_error_, events_ |-> events_,
         event_break |-> event_break]

\* IOEventLoop::EnsureInit (IOEventLoop.cpp:47-56): [ok, loop]; base_new is
\* whether event_base_new gives a base.
EnsureInit(loop, base_new) ==
  IF loop.ebase_ = "nullptr"
    THEN IF base_new THEN [ok |-> TRUE, loop |-> [loop EXCEPT !.ebase_ = "base"]]
         ELSE [ok |-> FALSE, loop |-> loop]
    ELSE [ok |-> TRUE, loop |-> loop]

\* IOEventLoop::AddEvent (IOEventLoop.cpp:86-103): [ok, loop]; libevent is what
\* event_base_new, event_new and event_add answer.
AddEvent(loop, kind, events, callback, libevent) ==
  LET init == EnsureInit(loop, libevent # "event_base_new fails") IN
  IF ~init.ok THEN [ok |-> FALSE, loop |-> init.loop]
  ELSE IF libevent = "event_new fails" THEN [ok |-> FALSE, loop |-> init.loop]
  ELSE IF libevent = "event_add fails" THEN [ok |-> FALSE, loop |-> init.loop]
  ELSE [ok |-> TRUE,
        loop |-> [init.loop EXCEPT !.events_ =
                    Append(@, [kind |-> kind, events |-> events, callback |-> callback])]]

\* IOEventLoop::AddSignalEvent (IOEventLoop.cpp:66-69).
AddSignalEvent(loop, callback, libevent) ==
  AddEvent(loop, "signal", {"EV_SIGNAL", "EV_PERSIST"}, callback, libevent)

\* IOEventLoop::AddPeriodicEvent (IOEventLoop.cpp:81-84).
AddPeriodicEvent(loop, callback, libevent) ==
  AddEvent(loop, "timeout", {"EV_PERSIST"}, callback, libevent)

\* loop.AddReadEvent(fd, callback) as IOEventLoop_test.cpp:32 calls it: a
\* persistent read event added by AddEvent.
AddReadEvent(loop, callback, libevent) ==
  AddEvent(loop, "read", {"EV_READ", "EV_PERSIST"}, callback, libevent)

\* Mutant of ExitLoop: it does not break the loop.
ExitLoop_NoBreak(loop) == [ok |-> TRUE, loop |-> loop]

\* IOEventLoop::ExitLoop (IOEventLoop.cpp:116-122): [ok, loop];
\* event_base_loopbreak fails on no base and otherwise sets the break flag.
ExitLoop(loop) ==
  IF loop.ebase_ = "nullptr" THEN [ok |-> FALSE, loop |-> loop]
  ELSE [ok |-> TRUE, loop |-> [loop EXCEPT !.event_break = TRUE]]

\* What one invocation of a callback does: [ret, exits (it calls ExitLoop), count].
\* The callbacks of IOEventLoop_test.cpp (lines 32-47, 70-75, 94-99) count and
\* call ExitLoop on invocation ExitAt; any other callback does as it likes.
CallbackOutcomes(callback, n) ==
  IF callback = "count"
    THEN {[ret |-> TRUE, exits |-> n + 1 = ExitAt, count |-> n + 1]}
    ELSE {[ret |-> ret, exits |-> exits, count |-> n] : ret \in BOOLEAN, exits \in BOOLEAN}

\* Mutant of EventCallbackFn: a failed callback exits the loop without latching
\* the error.
EventCallbackFn_NoLatch(loop, outcome) ==
  LET called == IF outcome.exits THEN ExitLoop(loop).loop ELSE loop
  IN  IF ~outcome.ret THEN ExitLoop(called).loop ELSE called

\* IOEventLoop::EventCallbackFn (IOEventLoop.cpp:58-64) around a callback that
\* does outcome: the loop afterwards.
EventCallbackFn(loop, outcome) ==
  LET called == IF outcome.exits THEN ExitLoop(loop).loop ELSE loop
  IN  IF ~outcome.ret
        THEN ExitLoop([called EXCEPT !.has_error_ = TRUE]).loop
        ELSE called

\* IOEventLoop::RunLoop (IOEventLoop.cpp:105-114) once event_base_dispatch has
\* returned dispatch.
RunLoopResult(loop, dispatch) ==
  IF dispatch = -1 THEN FALSE
  ELSE IF loop.has_error_ THEN FALSE
  ELSE TRUE

\* How often the model lets the callback of an event run.
InvocationCap(callback) == IF callback = "count" THEN ExitAt + 1 ELSE MaxDispatch

LoopBecomes(loop) ==
  /\ ebase_' = loop.ebase_
  /\ has_error_' = loop.has_error_
  /\ events_' = loop.events_
  /\ event_break' = loop.event_break

\* A registration call returned r.
Registered(r, op) ==
  /\ LoopBecomes(r.loop)
  /\ count' = IF r.ok THEN Append(count, 0) ELSE count
  /\ invoked' = IF r.ok THEN Append(invoked, 0) ELSE invoked
  /\ loop_hist' = [loop_hist EXCEPT !.last = op]
  /\ UNCHANGED <<loop_phase, loop_result>>
  /\ UNCHANGED loopOthers

CanRegister == loop_phase # "crashed" /\ Len(events_) < MaxEvents

CallAddSignalEvent(callback, libevent) ==
  /\ CanRegister
  /\ \E r \in {AddSignalEvent(Loop, callback, libevent)} : Registered(r, "AddSignalEvent")

CallAddPeriodicEvent(callback, libevent) ==
  /\ CanRegister
  /\ \E r \in {AddPeriodicEvent(Loop, callback, libevent)} : Registered(r, "AddPeriodicEvent")

CallAddReadEvent(callback, libevent) ==
  /\ CanRegister
  /\ \E r \in {AddReadEvent(Loop, callback, libevent)} : Registered(r, "AddReadEvent")

\* ExitLoop() called from outside a callback.
CallExitLoop ==
  /\ loop_phase \in {"idle", "returned"}
  /\ LoopBecomes(ExitLoop(Loop).loop)
  /\ loop_hist' = [loop_hist EXCEPT !.last = "ExitLoop"]
  /\ UNCHANGED <<loop_phase, loop_result, count, invoked>>
  /\ UNCHANGED loopOthers

\* RunLoop() is called: event_base_dispatch(ebase_) starts, clearing the break
\* flag of the base; with no base it dereferences a null pointer.
RunLoopBegin ==
  /\ loop_phase \in {"idle", "returned"}
  /\ loop_hist.runs < MaxRuns
  /\ loop_phase' = IF ebase_ = "nullptr" THEN "crashed" ELSE "dispatching"
  /\ event_break' = FALSE
  /\ loop_hist' = [loop_hist EXCEPT !.runs = @ + 1, !.dispatch_failed = FALSE,
                                    !.last = "RunLoop"]
  /\ UNCHANGED <<ebase_, has_error_, events_, loop_result, count, invoked>>
  /\ UNCHANGED loopOthers

\* event_base_dispatch finds event i active and calls EventCallbackFn for it;
\* after a loopbreak it calls no further callback.
Dispatch(i, outcome) ==
  /\ loop_phase = "dispatching"
  /\ ~event_break
  /\ i \in DOMAIN events_
  /\ invoked[i] < InvocationCap(events_[i].callback)
  /\ outcome \in CallbackOutcomes(events_[i].callback, count[i])
  /\ LoopBecomes(EventCallbackFn(Loop, outcome))
  /\ count' = [count EXCEPT ![i] = outcome.count]
  /\ invoked' = [invoked EXCEPT ![i] = @ + 1]
  /\ loop_hist' = [loop_hist EXCEPT
                     !.failed_run = IF @ = 0 /\ ~outcome.ret THEN loop_hist.runs ELSE @,
                     !.last = IF outcome.ret THEN "callback" ELSE "callback failed"]
  /\ UNCHANGED <<loop_phase, loop_result>>
  /\ UNCHANGED loopOthers

\* event_base_dispatch returns dispatch (0 after a loopbreak, 1 with no event
\* registered, -1 on an error of its own) and RunLoop returns.
RunLoopReturn(dispatch) ==
  /\ loop_phase = "dispatching"
  /\ \/ dispatch = 0 /\ event_break
     \/ dispatch = 1 /\ events_ = <<>> /\ ~event_break
     \/ dispatch = -1
  /\ loop_phase' = "returned"
  /\ loop_result' = RunLoopResult(Loop, dispatch)
  /\ loop_hist' = [loop_hist EXCEPT !.dispatch_failed = (dispatch = -1),
                                    !.last = "RunLoop returned"]
  /\ UNCHANGED <<ebase_, has_error_, events_, event_break, count, invoked>>
  /\ UNCHANGED loopOthers

LibeventAnswers == {"ok", "event_base_new fails", "event_new fails", "event_add fails"}

LoopNext ==
  \/ \E libevent \in LibeventAnswers : CallAddSignalEvent("any", libevent)
  \/ \E libevent \in LibeventAnswers : CallAddPeriodicEvent("any", libevent)
  \/ \E libevent \in LibeventAnswers : CallAddReadEvent("any", libevent)
  \/ CallExitLoop
  \/ RunLoopBegin
  \/ \E i \in DOMAIN events_ :
       \E outcome \in CallbackOutcomes(events_[i].callback, count[i]) : Dispatch(i, outcome)
  \/ \E dispatch \in {-1, 0, 1} : RunLoopReturn(dispatch)

InitLoop == LoopIdle /\ CacheIdle /\ ChainIdle /\ CodecIdle /\ SetIdle /\ ReportIdle

SpecLoop == InitLoop /\ [][LoopNext]_vars

\* The tests of IOEventLoop_test.cpp: one persistent read, signal or periodic
\* event whose callback counts; the event keeps firing and event_base_dispatch
\* does not fail.
LoopTestNext ==
  \/ \E libevent \in LibeventAnswers :
       events_ = <<>> /\ CallAddSignalEvent("count", libevent)
  \/ \E libevent \in LibeventAnswers :
       events_ = <<>> /\ CallAddPeriodicEvent("count", libevent)
  \/ \E libevent \in LibeventAnswers :
       events_ = <<>> /\ CallAddReadEvent("count", libevent)
  \/ RunLoopBegin
  \/ \E i \in DOMAIN events_ :
       \E outcome \in CallbackOutcomes(events_[i].callback, count[i]) : Dispatch(i, outcome)
  \/ \E dispatch \in {0, 1} : RunLoopReturn(dispatch)

\* The event of the test keeps occurring while the loop dispatches, and
\* event_base_dispatch returns once the loop is broken.
LoopTestFairness ==
  /\ WF_vars(\E i \in DOMAIN events_ :
               \E outcome \in CallbackOutcomes(events_[i].callback, count[i]) :
                 Dispatch(i, outcome))
  /\ WF_vars(RunLoopReturn(0))

SpecLoopTest == InitLoop /\ [][LoopTestNext]_vars /\ LoopTestFairness

(***************************************************************************)
(* Properties of the event loop.                                           *)
(***************************************************************************)
\* C11: a callback that returns false sets has_error_ and breaks the loop;
\* has_error_ is never cleared; once a callback has returned false every RunLoop
\* that returns returns false; and a RunLoop returns true when no callback has
\* ever returned false and event_base_dispatch did not fail.
C11_FailedCallbackLatchesError ==
  /\ [][(loop_hist'.last = "callback failed" /\ invoked' # invoked)
          => has_error_' /\ event_break']_vars
  /\ [][has_error_ => has_error_']_vars
  /\ [](loop_phase = "returned" =>
          /\ loop_hist.failed_run # 0 => loop_result = FALSE
          /\ (loop_hist.failed_run = 0 /\ ~loop_hist.dispatch_failed) => loop_result = TRUE)

\* C11 witness: a callback returned false in the first RunLoop, and the second
\* RunLoop, whose dispatch did not fail, has returned false as well.
C11_Witness ==
  /\ loop_phase = "returned"
  /\ loop_hist.runs = 2
  /\ loop_hist.failed_run = 1
  /\ ~loop_hist.dispatch_failed
  /\ loop_result = FALSE

\* The number of times the callback of event i has been invoked.
Invocations(i) == IF i \in DOMAIN invoked THEN invoked[i] ELSE 0

\* The loop dispatches the first event, whose callback has not yet counted to
\* ExitAt.
CountingBelowExitAt ==
  /\ loop_phase = "dispatching"
  /\ events_ # <<>>
  /\ \A i \in DOMAIN count : i = 1 => count[i] < ExitAt

\* C12: a registration stays in place when its callback is dispatched; after a
\* loopbreak no callback is invoked before RunLoop returns; and a loop whose
\* callback calls ExitLoop on invocation ExitAt and returns true returns from
\* RunLoop with true, the callback having been invoked exactly ExitAt times.
C12_CountingCallbackExitsLoop ==
  /\ [][\A i \in DOMAIN events_ : i \in DOMAIN events_' /\ events_'[i] = events_[i]]_vars
  /\ [][(loop_phase = "dispatching" /\ event_break) => invoked' = invoked]_vars
  /\ []((loop_phase = "returned" /\ event_break)
          => Invocations(1) = ExitAt /\ loop_result = TRUE)
  /\ [](CountingBelowExitAt
          => <>(loop_phase = "returned" /\ loop_result = TRUE /\ Invocations(1) = ExitAt))

\* C12 witness: RunLoop has returned true after ExitAt invocations of the
\* callback of a periodic event.
C12_Witness ==
  /\ loop_phase = "returned"
  /\ loop_result = TRUE
  /\ events_ # <<>> /\ events_[1].kind = "timeout"
  /\ invoked[1] = ExitAt /\ count[1] = ExitAt

\* ---- cpu hotplug handlers ----
\* The positions of the history where the call was made about the cpu.
CallsOn(call, cpu) ==
  {k \in DOMAIN set_log : set_log[k].call = call /\ set_log[k].cpu = cpu}

\* The last scan handled the event for the cpu and the handler returned true.
Handled(handler, cpu) ==
  /\ set_op.op = "DetectCpuHotplugEvents"
  /\ CallsOn(handler, cpu) # {}
  /\ CallsOn("return true", cpu) # {}

\* The selections in the flattened group order, each as <<g, i>>.
FlattenedSelections ==
  Flatten([g \in DOMAIN groups_ |-> [i \in DOMAIN groups_[g] |-> <<g, i>>]])

\* The open event files on the cpu that the selections hold, as <<g, i, id>>.
HeldOnCpu(cpu) ==
  LET visits == FilesInOrder(groups_) IN
  {visits[k] : k \in {n \in DOMAIN visits : event_files[visits[n][3]].cpu = cpu}}

\* data is a list of (index, id) pairs that names exactly the files held on the
\* cpu, each with the index of its selection in the flattened group order.
NamesFilesOnCpu(data, cpu) ==
  /\ Len(data) = 2 * Cardinality(HeldOnCpu(cpu))
  /\ \A v \in HeldOnCpu(cpu) : \E n \in 1..Cardinality(HeldOnCpu(cpu)) :
       /\ data[2 * n] = v[3]
       /\ data[2 * n - 1] + 1 \in DOMAIN FlattenedSelections
       /\ FlattenedSelections[data[2 * n - 1] + 1] = <<v[1], v[2]>>

CallsOnFile(call, id) ==
  {k \in DOMAIN set_log : set_log[k].call = call /\ set_log[k].id = id}

\* The call was made on the file exactly once.
CalledOnce(call, id) == Cardinality(CallsOnFile(call, id)) = 1

\* Each of the calls was made on the file exactly once, in the order given.
CalledInOrder(calls, id) ==
  /\ \A n \in DOMAIN calls : CalledOnce(calls[n], id)
  /\ \A n \in 1..(Len(calls) - 1) :
       \A k \in CallsOnFile(calls[n], id) : \A l \in CallsOnFile(calls[n + 1], id) : k < l

\* The saved counters of the selection that came from the file.
SavedFrom(g, i, id) ==
  {n \in DOMAIN groups_[g][i].hotplugged_counters :
     groups_[g][i].hotplugged_counters[n].id = id}

\* C14: a scan step that handles the offline event of cpu c drains once and then
\* stops polling each file on c that had a mapped buffer, before closing it
\* (sampling mode), or reads the counter of each file on c and appends it to the
\* hotplugged_counters of its selection before closing it (stat mode); after the
\* step no selection holds a file on c, and the files on cpus without an event
\* are held and are what they were.
C14_CpuOfflineDrainsThenCloses ==
  [][\A c \in Cpus : (scans' = scans + 1 /\ Handled("HandleCpuOfflineEvent", c)') =>
       /\ HeldOnCpu(c)' = {}
       /\ \A v \in HeldOnCpu(c) :
            /\ ~event_files'[v[3]].open
            /\ IF for_stat_cmd_
                 THEN /\ CalledInOrder(<<"ReadCounter", "erase">>, v[3])'
                      /\ SavedFrom(v[1], v[2], v[3]) = {}
                      /\ Cardinality(SavedFrom(v[1], v[2], v[3])') = 1
                      /\ CallsOnFile("ReadMmapEventDataForFd", v[3])' = {}
                 ELSE /\ CallsOnFile("ReadCounter", v[3])' = {}
                      /\ IF event_files[v[3]].buffer # "none"
                           THEN CalledInOrder(<<"ReadMmapEventDataForFd", "StopPolling",
                                                "erase">>, v[3])'
                           ELSE /\ CalledOnce("erase", v[3])'
                                /\ CallsOnFile("ReadMmapEventDataForFd", v[3])' = {}
                                /\ CallsOnFile("StopPolling", v[3])' = {}
       /\ \A d \in (Cpus \cup {-1}) \ {c} :
            (CallsOn("HandleCpuOfflineEvent", d)' = {} /\ CallsOn("HandleCpuOnlineEvent", d)' = {})
              => /\ HeldOnCpu(d)' = HeldOnCpu(d)
                 /\ \A v \in HeldOnCpu(d) : event_files'[v[3]] = event_files[v[3]]
                 /\ \A id \in DOMAIN event_files :
                      event_files[id].cpu = d => CallsOnFile("erase", id)' = {}
    ]_vars

\* C14 witness: in sampling mode a handled cpu-offline event drained and closed
\* two files that had a mapped buffer while a file on another cpu keeps its own.
C14_Witness ==
  \E c \in Cpus :
    /\ Handled("HandleCpuOfflineEvent", c)
    /\ ~for_stat_cmd_
    /\ Cardinality({k \in DOMAIN set_log : set_log[k].call = "StopPolling"}) >= 2
    /\ \E d \in Cpus \ {c} : \E v \in HeldOnCpu(d) :
         event_files[v[3]].buffer = "own" /\ event_files[v[3]].polling

\* The cpus the set was opened on: the cpus of its event files, open or closed.
CpusRecorded == {event_files[id].cpu : id \in DOMAIN event_files}

TimesReported(id) ==
  Cardinality({<<n, k>> \in (DOMAIN set_op.counters) \X (1..(2 * Cardinality(DOMAIN event_files))) :
                 /\ k \in DOMAIN set_op.counters[n].counters
                 /\ set_op.counters[n].counters[k].id = id})

\* The file had its counter saved when its cpu went offline.
SavedAtOffline(id) ==
  \E g \in DOMAIN groups_ : \E i \in DOMAIN groups_[g] : SavedFrom(g, i, id) # {}

IsPrefix(p, q) == Len(p) <= Len(q) /\ SubSeq(q, 1, Len(p)) = p

\* C16: a successful ReadCounters gives one entry for every selection, in the
\* flattened group order, whose counters are the selection's hotplugged_counters
\* followed by one counter read from each event file it holds, in order; the
\* counter of a file saved at offline occurs exactly once in the result and that
\* of any file at most once; and no step removes or changes a saved counter.
C16_ReadCountersKeepsSavedCounters ==
  /\ [](set_op.op = "ReadCounters" /\ set_op.ok =>
         /\ Len(set_op.counters) = Len(FlattenedSelections)
         /\ \A n \in DOMAIN FlattenedSelections :
              LET selection == groups_[FlattenedSelections[n][1]][FlattenedSelections[n][2]]
                  saved == selection.hotplugged_counters
                  got == set_op.counters[n].counters
              IN  /\ Len(got) = Len(saved) + Len(selection.event_fds)
                  /\ IsPrefix(saved, got)
                  /\ \A k \in DOMAIN selection.event_fds :
                       /\ got[Len(saved) + k].id = selection.event_fds[k]
                       /\ got[Len(saved) + k].tid = event_files[selection.event_fds[k]].tid
                       /\ got[Len(saved) + k].cpu = event_files[selection.event_fds[k]].cpu
                       /\ event_files[selection.event_fds[k]].open
                  /\ set_op.counters[n].group_id = FlattenedSelections[n][1] - 1
                  /\ set_op.counters[n].event_name = selection.event_type_modifier.event_type.name
         /\ \A id \in DOMAIN event_files :
              /\ TimesReported(id) <= 1
              /\ SavedAtOffline(id) => TimesReported(id) = 1 /\ ~event_files[id].open)
  /\ [][\A g \in DOMAIN groups_ : \A i \in DOMAIN groups_[g] :
          groups_[g][i].hotplugged_counters # <<>> =>
            /\ g \in DOMAIN groups_' /\ i \in DOMAIN groups_'[g]
            /\ IsPrefix(groups_[g][i].hotplugged_counters, groups_'[g][i].hotplugged_counters)
      ]_vars

\* C16 witness: a successful read after a cpu went offline and came back: a
\* selection reports a saved counter of that cpu followed by the counter of the
\* file reopened on it.
C16_Witness ==
  /\ set_op.op = "ReadCounters" /\ set_op.ok /\ for_stat_cmd_
  /\ \E n \in DOMAIN set_op.counters :
       \E k, l \in DOMAIN set_op.counters[n].counters :
         /\ k < l
         /\ set_op.counters[n].counters[k].cpu = set_op.counters[n].counters[l].cpu
         /\ ~event_files[set_op.counters[n].counters[k].id].open
         /\ event_files[set_op.counters[n].counters[l].id].open

\* ---- mapped buffers ----
\* The held files on the cpu that created their mapped buffer.
OwnersOnCpu(cpu) == {v \in HeldOnCpu(cpu) : event_files[v[3]].buffer = "own"}

\* The last event the last scan handled was the handler's event for the cpu, and
\* the handler returned true: the state is the one the handled event leaves.
JustHandled(handler, cpu) ==
  /\ Handled(handler, cpu)
  /\ set_log[Len(set_log)].call = "return true"
  /\ set_log[Len(set_log)].cpu = cpu

\* One file on the cpu owns a buffer and the other files on the cpu share it.
OneBufferOnCpu(cpu) ==
  /\ Cardinality(OwnersOnCpu(cpu)) = 1
  /\ \A o \in OwnersOnCpu(cpu) : \A v \in HeldOnCpu(cpu) \ {o} :
       event_files[v[3]].buffer = "shared" /\ event_files[v[3]].owner = o[3]

\* C17: after a successful MmapEventFiles and in the state a handled cpu-online
\* event leaves in sampling mode, every cpu with open event files has exactly
\* one file that created the mapped buffer, all other files on the cpu share
\* that file's buffer, and a shared buffer is always that of a file on the same
\* cpu.
C17_OneMappedBufferPerCpu ==
  (/\ ~for_stat_cmd_
   /\ \/ set_op.op = "MmapEventFiles" /\ set_op.ok
      \/ \E cpu \in Cpus : JustHandled("HandleCpuOnlineEvent", cpu))
  => /\ \A cpu \in Cpus \cup {-1} : HeldOnCpu(cpu) # {} => OneBufferOnCpu(cpu)
     /\ \A id \in DOMAIN event_files :
          event_files[id].buffer = "shared" =>
            /\ event_files[id].owner \in DOMAIN event_files
            /\ event_files[event_files[id].owner].cpu = event_files[id].cpu
            /\ event_files[event_files[id].owner].buffer = "own"

\* C17 witness: after a handled cpu-online event two cpus have open files; on
\* the cpu that came back a file opened by the handler owns the buffer and
\* another shares it.
C17_Witness ==
  /\ ~for_stat_cmd_
  /\ \E cpu \in Cpus :
       /\ JustHandled("HandleCpuOnlineEvent", cpu)
       /\ Cardinality(HeldOnCpu(cpu)) >= 2
       /\ OneBufferOnCpu(cpu)
       /\ \E d \in Cpus \ {cpu} : Cardinality(HeldOnCpu(d)) >= 2 /\ OneBufferOnCpu(d)

\* ---- event names of the set ----
\* C18: no two selections of the set, in one group or in different groups, have
\* the same event name (modifier included).
C18_NoDuplicateEventNames ==
  \A a, b \in SelectionIndexes(groups_) :
    a # b => groups_[a[1]][a[2]].event_type_modifier.name
               # groups_[b[1]][b[2]].event_type_modifier.name

\* cpu-clock and task-clock with modifier u or k.
ClockWithModifier == {"cpu-clock:u", "cpu-clock:k", "task-clock:u", "task-clock:k"}

\* The event names of the selections of the set.
NamesInSet == {groups_[gs[1]][gs[2]].event_type_modifier.name : gs \in SelectionIndexes(groups_)}

\* The step added the event as a new last group of its own.
AddedAsGroup(event_name) ==
  /\ set_op'.ok
  /\ Len(groups_') = Len(groups_) + 1
  /\ Len(groups_'[Len(groups_')]) = 1
  /\ groups_'[Len(groups_')][1].event_type_modifier.name = event_name
  /\ \A g \in DOMAIN groups_ : Len(groups_'[g]) = Len(groups_[g])

\* C19: in a set used by stat, adding cpu-clock or task-clock with modifier u
\* or k fails and leaves the set as it was, so that no such event is ever in the
\* set, while cpu-cycles:u and cpu-cycles:k not yet in the set are added; in a
\* set not used by stat, clock events with u or k not yet in the set are added
\* as well.
C19_StatRejectsClockModifiers ==
  /\ [](for_stat_cmd_ => NamesInSet \cap ClockWithModifier = {})
  /\ [][set_op'.op = "AddEventType" =>
          LET event_name == set_op'.event_name IN
          /\ (for_stat_cmd_ /\ event_name \in ClockWithModifier)
               => ~set_op'.ok /\ groups_' = groups_
          /\ (event_name \in {"cpu-cycles:u", "cpu-cycles:k"} /\ event_name \notin NamesInSet)
               => AddedAsGroup(event_name)
          /\ (~for_stat_cmd_ /\ event_name \in ClockWithModifier /\ event_name \notin NamesInSet)
               => AddedAsGroup(event_name)
      ]_vars

\* C19 witness: a set used by stat that holds cpu-cycles:u and cpu-cycles:k has
\* just refused task-clock:k.
C19_Witness ==
  /\ for_stat_cmd_
  /\ set_op.op = "AddEventType" /\ ~set_op.ok
  /\ set_op.event_name = "task-clock:k"
  /\ NamesInSet = {"cpu-cycles:u", "cpu-cycles:k"}

\* ---- splitting a node of the call-chain tree ----
\* The node that has n among its children, 0 for the root.
ParentOf(n) ==
  IF \E q \in 1..Len(nodes) : \E i \in DOMAIN nodes[q].children : nodes[q].children[i] = n
    THEN CHOOSE q \in 1..Len(nodes) :
           \E i \in DOMAIN nodes[q].children : nodes[q].children[i] = n
    ELSE 0

\* The names on the way from the root down to node n, the chain of n excluded.
RECURSIVE NamesAbove(_)
NamesAbove(n) ==
  IF ParentOf(n) = 0 THEN <<>>
  ELSE NamesAbove(ParentOf(n)) \o Names(nodes[ParentOf(n)].chain)

\* The added chain reaches node c and matches exactly its first m entries.
MatchesOnly(callchain, c, m) ==
  LET above == NamesAbove(c)
      names == Names(callchain)
  IN  /\ m >= 1 /\ m < Len(nodes[c].chain)
      /\ Len(above) + m <= Len(names)
      /\ SubSeq(names, 1, Len(above) + m) = above \o SubSeq(Names(nodes[c].chain), 1, m)
      /\ Len(above) + m < Len(names) =>
           names[Len(above) + m + 1] # nodes[c].chain[m + 1].name

\* The step split node c at m for the added chain, as the statement describes:
\* the new nodes are the tail of c and, when the chain is not used up, its rest.
SplitAt(callchain, period, c, m) ==
  LET used == Len(NamesAbove(c)) + m
      tail == [chain |-> SubSeq(nodes[c].chain, m + 1, Len(nodes[c].chain)),
               period |-> nodes[c].period,
               children_period |-> nodes[c].children_period,
               children |-> nodes[c].children]
      rest == [chain |-> SubSeq(callchain, used + 1, Len(callchain)),
               period |-> period, children_period |-> 0, children |-> <<>>]
  IN  /\ nodes'[c].chain = SubSeq(nodes[c].chain, 1, m)
      /\ Len(nodes'[c].children) >= 1
      /\ nodes'[c].children[1] > Len(nodes)
      /\ nodes'[nodes'[c].children[1]] = tail
      /\ IF used = Len(callchain)
           THEN /\ nodes'[c].period = period
                /\ Len(nodes'[c].children) = 1
                /\ nodes'[c].children_period = tail.period + tail.children_period
                /\ Len(nodes') = Len(nodes) + 1
           ELSE /\ nodes'[c].period = 0
                /\ Len(nodes'[c].children) = 2
                /\ nodes'[c].children[2] > Len(nodes)
                /\ nodes'[c].children[2] # nodes'[c].children[1]
                /\ nodes'[nodes'[c].children[2]] = rest
                /\ nodes'[c].children_period = tail.period + tail.children_period + period
                /\ Len(nodes') = Len(nodes) + 2

\* C20: when an added chain matches only the first m entries of the node c it
\* reaches, m less than the length of c's chain, the call splits c at m: c keeps
\* its first m entries, its first child holds the remaining entries with c's
\* previous period, children_period and children, and either the rest of the
\* added chain is a second child with the added period and c has period 0, or
\* nothing is left and c's period is the added period.
C20_SplitKeepsTailAndAddsRest ==
  [][\A callchain \in StackChains : \A period \in Periods :
       AddCallChainCall(callchain, period, MaxStackAdds) =>
         \A c \in 1..Len(nodes) : \A m \in 1..Len(nodes[c].chain) :
           MatchesOnly(callchain, c, m) => SplitAt(callchain, period, c, m)
    ]_vars

\* C20 witness: [f,g,h] with period 10 and then [f,g,k] with period 5 were
\* added: one top node [f,g] (period 0, children_period 15) with the children
\* [h] (10) and [k] (5).
C20_Witness ==
  /\ num_added = 2 /\ ~check_failed
  /\ Len(root.children) = 1 /\ root.children_period = 15
  /\ LET top == nodes[root.children[1]] IN
       /\ Names(top.chain) = <<"f", "g">>
       /\ top.period = 0 /\ top.children_period = 15
       /\ Len(top.children) = 2
       /\ Names(nodes[top.children[1]].chain) = <<"h">>
       /\ nodes[top.children[1]].period = 10
       /\ nodes[top.children[1]].children = <<>>
       /\ Names(nodes[top.children[2]].chain) = <<"k">>
       /\ nodes[top.children[2]].period = 5
       /\ nodes[top.children[2]].children = <<>>

\* ---- siblings of the call-chain tree ----
\* The children vectors of the tree: the root's and every node's.
ChildVectors == {root.children} \cup {nodes[n].children : n \in 1..Len(nodes)}

\* No two nodes of a children vector start with the same symbol name.
SiblingsDistinct ==
  \A v \in ChildVectors : \A i, j \in DOMAIN v :
    i # j => nodes[v[i]].chain[1].name # nodes[v[j]].chain[1].name

\* The step created no node and left every chain and children vector alone.
SameNodes ==
  /\ Len(nodes') = Len(nodes)
  /\ root'.children = root.children
  /\ \A n \in 1..Len(nodes) :
       nodes'[n].chain = nodes[n].chain /\ nodes'[n].children = nodes[n].children

\* C21: in every tree AddCallChain (and SortByPeriod) builds, the children of
\* one parent, the root or a node, start with pairwise different symbol names;
\* and a call chain whose symbol names were added before, at whatever ips,
\* creates no node: its period goes into the nodes that are there.
C21_SiblingsDifferBySymbolName ==
  /\ [](~check_failed => SiblingsDistinct)
  /\ [][\A callchain \in JitChains : \A period \in Periods :
         (AddJitCallChain(callchain, period) /\ Names(callchain) \in DOMAIN added_period)
           => SameNodes
      ]_vars

\* C21 witness: a call chain was added whose names were added before and that
\* differs in an ip from what the tree holds for them: the tree has the one path of
\* the earlier chain, with both periods in it.
C21_Witness ==
  /\ chain_op.op = "AddCallChain" /\ chain_op.known /\ ~check_failed
  /\ num_added = 2
  /\ Len(chain_op.callchain) = 2
  /\ Len(nodes) = 1 /\ root.children = <<1>>
  /\ Names(nodes[1].chain) = Names(chain_op.callchain)
  /\ \E i \in 1..2 : nodes[1].chain[i].ip # chain_op.callchain[i].ip
  /\ nodes[1].period = added_period[Names(chain_op.callchain)]
  /\ nodes[1].period \in {10, 15, 20}

\* ---- sorting the call-chain tree ----
\* What the children of a parent are ordered by.
NodeTotal(n) == nodes[n].period + nodes[n].children_period

\* The vector is in descending order of period + children_period.
Descending(v) == \A i, j \in DOMAIN v : i < j => NodeTotal(v[i]) >= NodeTotal(v[j])

\* The vector holds the nodes of the other vector, each once.
SameChildren(v, w) ==
  /\ Len(v) = Len(w)
  /\ {v[i] : i \in DOMAIN v} = {w[i] : i \in DOMAIN w}
  /\ \A i, j \in DOMAIN v : i # j => v[i] # v[j]

\* C22: right after SortByPeriod the children vector of the root and of every
\* node is in descending order of period + children_period, and the tree is the
\* one it was called on but for the order of the children: the same nodes with
\* the same chains, periods and children_periods, each with the same children
\* under the same parent.
C22_SortByPeriodOnlyReorders ==
  chain_op.op = "SortByPeriod" =>
    /\ \A v \in ChildVectors : Descending(v)
    /\ root.children_period = chain_op.root.children_period
    /\ SameChildren(root.children, chain_op.root.children)
    /\ Len(nodes) = Len(chain_op.nodes)
    /\ \A n \in 1..Len(nodes) :
         /\ nodes[n].chain = chain_op.nodes[n].chain
         /\ nodes[n].period = chain_op.nodes[n].period
         /\ nodes[n].children_period = chain_op.nodes[n].children_period
         /\ SameChildren(nodes[n].children, chain_op.nodes[n].children)

\* C22 witness: SortByPeriod has reordered the children of the root and the
\* children of a node below the root, which differ in period + children_period.
C22_Witness ==
  /\ chain_op.op = "SortByPeriod"
  /\ root.children # chain_op.root.children
  /\ \E n \in 1..Len(nodes) :
       /\ Len(nodes[n].children) >= 2
       /\ nodes[n].children # chain_op.nodes[n].children
       /\ NodeTotal(nodes[n].children[1]) > NodeTotal(nodes[n].children[2])

\* ---- the length of BinaryFormat ----
\* BinaryFormat was just called on the record at hand, whose size was computed by
\* Create or by AdjustSizeBasedOnData.
SizedAndEncoded ==
  /\ codec_src # NoRecord /\ codec_src = codec_record
  /\ codec_phase \in {"bytes", "undefined"}
  /\ codec_origin \in {"Create", "AdjustSizeBasedOnData"}

\* C23: BinaryFormat of a record whose size Create or AdjustSizeBasedOnData
\* computed returns exactly header.size bytes, whatever the length of the payload.
C23_BinaryFormatHasHeaderSize ==
  SizedAndEncoded => codec_phase = "bytes" /\ Len(codec_buf) = codec_src.size

(***************************************************************************)
(*                               DsoEntry                                  *)
(***************************************************************************)
MaxSymbols == 3         \* symbols in the table
AddrBits == 3           \* width of an address, for the 64 bits of uint64_t
MaxKallsyms == 3        \* entries of /proc/kallsyms

\* The largest value of an address, ULLONG_MAX at the width of the model.
ULLONG_MAX == 2 ^ AddrBits - 1

SymbolNames == {"f", "g"}
SymbolAddrs == {0, 1, 3, 4}
SymbolLens == {0, 2}
Offsets == 0..6

\* SymbolComparator::operator() (dso.cpp:25-28).
SymbolComparator(symbol1, symbol2) == symbol1.addr < symbol2.addr

\* The std::set as a sequence in the order of its comparator.
SymbolsInOrder(set) ==
  CHOOSE seq \in [1..Cardinality(set) -> set] :
    /\ \A s \in set : \E i \in DOMAIN seq : seq[i] = s
    /\ \A i, j \in DOMAIN seq : i < j => SymbolComparator(seq[i], seq[j])

\* std::set::lower_bound, a stand-in for upper_bound: the position of the first
\* element that is not before the value.
LowerBound(seq, value) ==
  LET at == {i \in DOMAIN seq : ~SymbolComparator(seq[i], value)}
  IN  IF at = {} THEN Len(seq) + 1 ELSE CHOOSE i \in at : \A j \in at : i <= j

\* std::set::upper_bound: the position of the first element the value is
\* before, Len + 1 for end().
UpperBound(seq, value) ==
  LET at == {i \in DOMAIN seq : SymbolComparator(value, seq[i])}
  IN  IF at = {} THEN Len(seq) + 1 ELSE CHOOSE i \in at : \A j \in at : i <= j

\* DsoEntry::FindSymbol (dso.cpp:30-43): the set of the symbol returned, empty
\* for nullptr.
FindSymbol(set, offset_in_dso) ==
  LET seq == SymbolsInOrder(set)
      symbol == [name |-> "", addr |-> offset_in_dso, len |-> 0]
      it == UpperBound(seq, symbol)
  IN  IF it # 1
        THEN LET s == seq[it - 1] IN
             IF s.addr <= offset_in_dso
                  /\ (s.addr + s.len) % (ULLONG_MAX + 1) > offset_in_dso
               THEN {s} ELSE {}
        ELSE {}

\* ParseSymbolCallback (dso.cpp:103-111) for a symbol that passes the filter:
\* std::set::insert keeps the element already there when the comparator finds
\* the two equivalent.
InsertSymbol(name, addr, len) ==
  /\ Cardinality(symbols) < MaxSymbols
  /\ LET symbol == [name |-> name, addr |-> addr, len |-> len] IN
     symbols' = IF \E s \in symbols : ~SymbolComparator(s, symbol) /\ ~SymbolComparator(symbol, s)
                  THEN symbols ELSE symbols \cup {symbol}
  /\ found' = [op |-> "insert"]
  /\ UNCHANGED dsoOthers

CallFindSymbol(offset_in_dso) ==
  /\ found' = [op |-> "FindSymbol", offset |-> offset_in_dso,
               result |-> FindSymbol(symbols, offset_in_dso)]
  /\ UNCHANGED symbols
  /\ UNCHANGED dsoOthers

\* IsKernelFunctionSymbol (dso.cpp:65-67).
IsKernelFunctionSymbol(symbol) == symbol.type \in {"T", "t", "W", "w"}

\* KernelSymbolCallback (dso.cpp:69-77) for the entries from kallsyms[i] on:
\* a function symbol is inserted with len 0, and std::set::insert keeps the
\* element already there for an address it holds.
RECURSIVE KernelSymbolCallbacks(_, _, _)
KernelSymbolCallbacks(set, kallsyms, i) ==
  IF i > Len(kallsyms) THEN set
  ELSE LET symbol == [name |-> kallsyms[i].name, addr |-> kallsyms[i].addr, len |-> 0] IN
       KernelSymbolCallbacks(
         IF IsKernelFunctionSymbol(kallsyms[i])
            /\ ~\E s \in set : ~SymbolComparator(s, symbol) /\ ~SymbolComparator(symbol, s)
           THEN set \cup {symbol} ELSE set,
         kallsyms, i + 1)

\* "Fix symbol.len" of LoadKernel (dso.cpp:89-99): each symbol ends where the
\* next one starts, the last one at ULLONG_MAX.
FixSymbolLen(set) ==
  LET seq == SymbolsInOrder(set) IN
  {[seq[i] EXCEPT !.len = IF i < Len(seq) THEN seq[i + 1].addr - seq[i].addr
                           ELSE ULLONG_MAX - seq[i].addr] : i \in DOMAIN seq}

\* DsoFactory::LoadKernel (dso.cpp:83-101) on a new DsoEntry, with the entries
\* ProcessKernelSymbols reads from /proc/kallsyms.
LoadKernel(kallsyms) ==
  /\ found.op = "new" /\ symbols = {}
  /\ symbols' = FixSymbolLen(KernelSymbolCallbacks({}, kallsyms, 1))
  /\ found' = [op |-> "LoadKernel", kallsyms |-> kallsyms]
  /\ UNCHANGED dsoOthers

\* The entries of /proc/kallsyms: functions and data, two names, addresses up
\* to the largest one.
KernelSymbols ==
  {[name |-> n, addr |-> a, type |-> ty] :
     n \in SymbolNames, a \in {1, 3, ULLONG_MAX - 1}, ty \in {"T", "D"}}

Kallsyms == UNION {[1..n -> KernelSymbols] : n \in 0..MaxKallsyms}

KernelNext ==
  \/ \E kallsyms \in Kallsyms : LoadKernel(kallsyms)
  \/ \E offset_in_dso \in 0..ULLONG_MAX : found.op # "new" /\ CallFindSymbol(offset_in_dso)

DsoNext ==
  \/ \E name \in SymbolNames : \E addr \in SymbolAddrs : \E len \in SymbolLens :
       InsertSymbol(name, addr, len)
  \/ \E offset_in_dso \in Offsets : CallFindSymbol(offset_in_dso)

InitDso ==
  ReportIdle /\ CacheIdle /\ ChainIdle /\ CodecIdle /\ SetIdle /\ LoopIdle

SpecDso == InitDso /\ [][DsoNext]_vars

SpecKernel == InitDso /\ [][KernelNext]_vars

\* The symbols that start at or below the offset.
StartingAtOrBelow(offset) == {s \in symbols : s.addr <= offset}

\* C25: FindSymbol(offset) returns the symbol with the largest addr <= offset
\* when that symbol's addr + len is above the offset, and no symbol otherwise;
\* a returned symbol has addr <= offset < addr + len.
C25_FindSymbolCoversOffset ==
  found.op = "FindSymbol" =>
    LET below == StartingAtOrBelow(found.offset)
        Largest(s) == \A o \in below : o.addr <= s.addr
    IN  /\ found.result =
             {s \in below : Largest(s) /\ s.addr + s.len > found.offset}
        /\ \A s \in found.result :
             s \in symbols /\ s.addr <= found.offset /\ found.offset < s.addr + s.len

\* A symbol is returned for an offset inside it, above another symbol and below
\* a third.
C25_Witness ==
  /\ found.op = "FindSymbol"
  /\ \E s \in found.result :
       /\ s.addr < found.offset
       /\ \E a, b \in symbols : a.addr < s.addr /\ b.addr > found.offset

(***************************************************************************)
(*                              SampleTree                                 *)
(* sample_tree.h declares the class and defines its two sample             *)
(* comparators; the bodies of AddKernelMap, AddUserMap, AddSample,         *)
(* FindProcessEntryOrNew, FindMapEntryOrNew and VisitAllSamples are        *)
(* modelled from the specification's section 4.H and from what             *)
(* sample_tree_test.cpp expects of them.                                   *)
(***************************************************************************)
MaxSamples == 3         \* AddSample calls

\* CompareSampleFunction (sample_tree_test.cpp:50-64).
CompareSampleFunction(sample1, sample2) ==
  IF sample1.process_entry.pid # sample2.process_entry.pid
    THEN sample1.process_entry.pid - sample2.process_entry.pid
  ELSE IF sample1.tid # sample2.tid THEN sample1.tid - sample2.tid
  ELSE IF sample1.map_entry.pid # sample2.map_entry.pid
    THEN sample1.map_entry.pid - sample2.map_entry.pid
  ELSE IF sample1.map_entry.start_addr # sample2.map_entry.start_addr
    THEN sample1.map_entry.start_addr - sample2.map_entry.start_addr
  ELSE 0

\* A comparator that is not strict.
SampleComparator_LessOrEqual(sample1, sample2) ==
  CompareSampleFunction(sample1, sample2) <= 0

\* SampleTree::SampleComparator::operator() (sample_tree.h:88-90).
SampleComparator(sample1, sample2) == CompareSampleFunction(sample1, sample2) < 0

\* A sorted order by period ascending.
SortedSampleComparator_Ascending(sample1, sample2) ==
  IF sample1.period # sample2.period THEN sample1.period < sample2.period
  ELSE CompareSampleFunction(sample1, sample2) < 0

\* SampleTree::SortedSampleComparator::operator() (sample_tree.h:98-103).
SortedSampleComparator(sample1, sample2) ==
  IF sample1.period # sample2.period THEN sample1.period > sample2.period
  ELSE CompareSampleFunction(sample1, sample2) < 0

\* The elements of sample_tree_ in its order.
SamplesInOrder(set) ==
  CHOOSE seq \in [1..Cardinality(set) -> set] :
    /\ \A s \in set : \E i \in DOMAIN seq : seq[i] = s
    /\ \A i, j \in DOMAIN seq : i < j => SampleComparator(seq[i], seq[j])

\* The elements of sorted_sample_tree_ in its order.
SortedSamplesInOrder(set) ==
  CHOOSE seq \in [1..Cardinality(set) -> set] :
    /\ \A s \in set : \E i \in DOMAIN seq : seq[i] = s
    /\ \A i, j \in DOMAIN seq : i < j => SortedSampleComparator(seq[i], seq[j])

\* sorted_sample_tree_.insert for each element of a sequence: std::set keeps
\* the element already there when the comparator finds the two equivalent.
RECURSIVE InsertSorted(_, _)
InsertSorted(set, seq) ==
  IF seq = <<>> THEN set
  ELSE LET e == Head(seq)
           present == \E s \in set : ~SortedSampleComparator(s, e)
                                      /\ ~SortedSampleComparator(e, s)
       IN  InsertSorted(IF present THEN set ELSE set \cup {e}, Tail(seq))

\* The maps of SampleTreeTest::SetUp (sample_tree_test.cpp:70-73); the process
\* 2 stays without a map.
MapEntry(pid, start_addr, len) ==
  [pid |-> pid, start_addr |-> start_addr, len |-> len, pgoff |-> 0, time |-> 0,
   filename |-> ""]

UserMaps == {MapEntry(1, 1, 10), MapEntry(1, 11, 10)}
KernelMaps == {MapEntry(-1, 11, 20)}

\* A map that holds the address after its last one as well.
IsIpInMap_Inclusive(pid, ip, map) ==
  pid = map.pid /\ map.start_addr <= ip /\ ip <= map.start_addr + map.len

\* The map holds the ip: start <= ip < start + len.
IsIpInMap(pid, ip, map) ==
  pid = map.pid /\ map.start_addr <= ip /\ ip < map.start_addr + map.len


\* SampleTree::FindMapEntryOrNew: the user map of the process that holds the
\* ip, else the kernel map that holds it, else the unknown map of the process,
\* made on first use: [map_entry, unknown_maps].
FindMapEntryOrNew(pid, ip) ==
  LET user == {map \in user_map_tree_ : IsIpInMap(pid, ip, map)}
      kernel == {map \in kernel_map_tree_ : IsIpInMap(-1, ip, map)}
      unknown == [pid |-> pid, start_addr |-> 0, len |-> 0, pgoff |-> 0, time |-> 0,
                  filename |-> "unknown"]
  IN  IF user # {}
        THEN [map_entry |-> CHOOSE map \in user : TRUE, unknown_maps |-> unknown_maps_]
      ELSE IF kernel # {}
        THEN [map_entry |-> CHOOSE map \in kernel : TRUE, unknown_maps |-> unknown_maps_]
      ELSE IF pid \in DOMAIN unknown_maps_
        THEN [map_entry |-> unknown_maps_[pid], unknown_maps |-> unknown_maps_]
      ELSE [map_entry |-> unknown, unknown_maps |-> unknown_maps_ @@ (pid :> unknown)]

\* SampleTree::FindProcessEntryOrNew: [process_entry, process_tree].
FindProcessEntryOrNew(pid) ==
  IF pid \in DOMAIN process_tree_
    THEN [process_entry |-> process_tree_[pid], process_tree |-> process_tree_]
    ELSE [process_entry |-> [pid |-> pid],
          process_tree |-> process_tree_ @@ (pid :> [pid |-> pid])]

\* SampleTree::AddUserMap and AddKernelMap.
AddUserMap(map) ==
  /\ user_map_tree_' = user_map_tree_ \cup {map}
  /\ UNCHANGED <<process_tree_, kernel_map_tree_, unknown_maps_, sample_tree_,
                 sorted_sample_tree_, total_samples_, total_period_, added, callbacks>>
  /\ UNCHANGED treeOthers

AddKernelMap(map) ==
  /\ kernel_map_tree_' = kernel_map_tree_ \cup {map}
  /\ UNCHANGED <<process_tree_, user_map_tree_, unknown_maps_, sample_tree_,
                 sorted_sample_tree_, total_samples_, total_period_, added, callbacks>>
  /\ UNCHANGED treeOthers

\* SampleTree::AddSample: the entry that compares equal to the sample gets its
\* period and one more sample_count; without one the sample becomes an entry.
AddSample(pid, tid, ip, time, period) ==
  /\ total_samples_ < MaxSamples
  /\ LET p == FindProcessEntryOrNew(pid)
         m == FindMapEntryOrNew(pid, ip)
         find_sample == [tid |-> tid, ip |-> ip, time |-> time, period |-> period,
                         sample_count |-> 1, process_entry |-> p.process_entry,
                         map_entry |-> m.map_entry]
         equal == {s \in sample_tree_ : ~SampleComparator(s, find_sample)
                                         /\ ~SampleComparator(find_sample, s)}
     IN  /\ process_tree_' = p.process_tree
         /\ unknown_maps_' = m.unknown_maps
         /\ sample_tree_' =
              IF equal = {} THEN sample_tree_ \cup {find_sample}
              ELSE (sample_tree_ \ equal)
                     \cup {[s EXCEPT !.period = @ + period, !.sample_count = @ + 1] :
                             s \in equal}
         /\ added' = Append(added, find_sample)
  /\ total_samples_' = total_samples_ + 1
  /\ total_period_' = total_period_ + period
  /\ UNCHANGED <<kernel_map_tree_, user_map_tree_, sorted_sample_tree_, callbacks>>
  /\ UNCHANGED treeOthers

\* SampleTree::VisitAllSamples: the view sorted by SortedSampleComparator is
\* derived from sample_tree_ and the callback gets each of its elements, in
\* order.
VisitAllSamples ==
  /\ sample_tree_ # {}
  /\ LET sorted == InsertSorted({}, SamplesInOrder(sample_tree_)) IN
       /\ sorted_sample_tree_' = sorted
       /\ callbacks' = SortedSamplesInOrder(sorted)
  /\ UNCHANGED <<process_tree_, kernel_map_tree_, user_map_tree_, unknown_maps_,
                 sample_tree_, total_samples_, total_period_, added>>
  /\ UNCHANGED treeOthers

\* The samples of sample_tree_test.cpp (lines 87-136) as <<pid, tid, ip, period>>,
\* with periods that differ.
TestSamples ==
  {<<1, 1, 1, 1>>, <<1, 1, 10, 2>>, <<1, 1, 11, 1>>, <<1, 1, 21, 2>>, <<2, 2, 1, 2>>}

SampleTreeNext ==
  \/ \E map \in UserMaps : AddUserMap(map)
  \/ \E map \in KernelMaps : AddKernelMap(map)
  \/ \E s \in TestSamples : AddSample(s[1], s[2], s[3], 0, s[4])
  \/ VisitAllSamples

InitSampleTree ==
  ReportIdle /\ CacheIdle /\ ChainIdle /\ CodecIdle /\ SetIdle /\ LoopIdle

SpecSampleTree == InitSampleTree /\ [][SampleTreeNext]_vars

\* The added samples that compare equal to the entry.
AddedEqualTo(e) == {i \in DOMAIN added : CompareSampleFunction(added[i], e) = 0}

RECURSIVE SumOfPeriods(_)
SumOfPeriods(is) ==
  IF is = {} THEN 0
  ELSE LET i == CHOOSE i \in is : TRUE IN added[i].period + SumOfPeriods(is \ {i})

\* C26: after any sequence of AddSample calls the samples that compare equal
\* are one entry whose sample_count is their number and whose period is the sum
\* of their periods; total_samples_ is the number of calls and total_period_
\* the sum of all added periods.
C26_EqualSamplesAggregate ==
  /\ \A i \in DOMAIN added :
       \E e \in sample_tree_ :
         /\ CompareSampleFunction(added[i], e) = 0
         /\ \A o \in sample_tree_ : CompareSampleFunction(added[i], o) = 0 => o = e
  /\ \A e \in sample_tree_ :
       /\ e.sample_count = Cardinality(AddedEqualTo(e))
       /\ e.period = SumOfPeriods(AddedEqualTo(e))
       /\ e.sample_count > 0
  /\ total_samples_ = Len(added)
  /\ total_period_ = SumOfPeriods(DOMAIN added)

\* Two samples of different ips and periods are one entry next to an entry of
\* another sample.
C26_Witness ==
  /\ Cardinality(sample_tree_) = 2
  /\ \E e \in sample_tree_ :
       /\ e.sample_count = 2 /\ e.period = 3
       /\ \E i, j \in AddedEqualTo(e) : added[i].ip # added[j].ip

\* C27: VisitAllSamples calls the callback exactly once for each entry of the
\* tree, in order of period descending, entries of equal period in ascending
\* order of the insertion comparator.
C27_VisitInPeriodOrder ==
  [][VisitAllSamples =>
       /\ Len(callbacks') = Cardinality(sample_tree_)
       /\ \A e \in sample_tree_ :
            Cardinality({i \in DOMAIN callbacks' : callbacks'[i] = e}) = 1
       /\ \A i, j \in DOMAIN callbacks' :
            i < j =>
              \/ callbacks'[i].period > callbacks'[j].period
              \/ /\ callbacks'[i].period = callbacks'[j].period
                 /\ CompareSampleFunction(callbacks'[i], callbacks'[j]) < 0]_vars

\* A visit of three entries, the first of a higher period than the other two,
\* which tie.
C27_Witness ==
  /\ Len(callbacks) = 3
  /\ {callbacks[i] : i \in DOMAIN callbacks} = sample_tree_
  /\ callbacks[1].period > callbacks[2].period
  /\ callbacks[2].period = callbacks[3].period
  /\ CompareSampleFunction(callbacks[1], callbacks[2]) > 0

\* The map holds the ip of a sample of the process.
Holds(map, pid, ip) ==
  map.pid = pid /\ map.start_addr <= ip /\ ip < map.start_addr + map.len

\* The map entry of the i-th added sample is an unknown map.
Unmapped(i) ==
  /\ added[i].process_entry.pid \in DOMAIN unknown_maps_
  /\ added[i].map_entry = unknown_maps_[added[i].process_entry.pid]

\* C28: AddSample resolves the ip to the user map of the sample's process that
\* holds it, without one to the kernel map that holds it, and without either to
\* the one unknown map of the process, which starts at 0; the unmapped samples
\* of one thread are one entry.
C28_SampleMapResolution ==
  /\ [][\A s \in TestSamples :
          AddSample(s[1], s[2], s[3], 0, s[4]) =>
            LET map == added'[Len(added')].map_entry
                user == {m \in user_map_tree_ : Holds(m, s[1], s[3])}
                kernel == {m \in kernel_map_tree_ : Holds(m, -1, s[3])}
            IN  IF user # {} THEN map \in user
                ELSE IF kernel # {} THEN map \in kernel
                ELSE /\ map.pid = s[1] /\ map.start_addr = 0
                     /\ map = unknown_maps_'[s[1]]
                     /\ s[1] \in DOMAIN unknown_maps_ => map = unknown_maps_[s[1]]]_vars
  /\ [](\A i, j \in DOMAIN added :
          (/\ Unmapped(i) /\ Unmapped(j)
           /\ added[i].process_entry.pid = added[j].process_entry.pid
           /\ added[i].tid = added[j].tid)
          => \E e \in sample_tree_ :
               {i, j} \subseteq AddedEqualTo(e) /\ e.sample_count >= Cardinality({i, j}))

\* One sample went to a user map although a kernel map holds its ip too, one to
\* the kernel map and one to the unknown map of the process.
C28_Witness ==
  /\ \E i \in DOMAIN added :
       /\ added[i].map_entry \in user_map_tree_
       /\ \E m \in kernel_map_tree_ : Holds(m, -1, added[i].ip)
  /\ \E i \in DOMAIN added : added[i].map_entry \in kernel_map_tree_
  /\ \E i \in DOMAIN added : Unmapped(i) /\ added[i].map_entry.start_addr = 0

\* ---- the loop of MmapEventFiles ----
\* The event files of the groups.
FilesOfGroups ==
  {FilesInOrder(groups_)[k][3] : k \in DOMAIN FilesInOrder(groups_)}

\* What one iteration of the loop of MmapEventFiles does: the sizes tried are
\* max, max/2, ... while the size is >= min; a failed attempt leaves no file
\* with a mapped buffer; the first success stores the size in mmap_pages_ and
\* returns true; false is returned once the size is below min.
MmapEventFilesHalves ==
  [][MmapEventFilesIteration =>
       /\ set_op.tried = -1 => set_op.i = set_op.max_mmap_pages
       /\ set_op.tried # -1 => set_op.i = set_op.tried \div 2
       /\ set_op.i >= set_op.min_mmap_pages => set_op'.tried = set_op.i
       /\ set_phase' = "mapping" =>
            \A id \in FilesOfGroups : event_files'[id].buffer = "none"
       /\ set_phase' = "mapped" =>
            /\ mmap_pages_' = set_op.i /\ set_op.i >= set_op.min_mmap_pages
            /\ \A id \in FilesOfGroups : event_files'[id].buffer # "none"
       /\ set_phase' = "failed" =>
            set_op.i < set_op.min_mmap_pages /\ mmap_pages_' = mmap_pages_]_vars

\* C29: MmapEventFiles, which halves the size from max down while it is >= min
\* (MmapEventFilesHalves), terminates for every min <= max, min = 0 included:
\* once entered it returns, true with the buffers mapped or false.
C29_MmapEventFilesTerminates ==
  (set_phase = "mapping") ~> (set_phase \in {"mapped", "failed"})

\* ---- hotplug scans and monitored cpus ----
\* The set monitors some cpus, and not this one.
NotMonitored(cpu) == monitored_cpus_ # {} /\ cpu \notin monitored_cpus_

\* C30: a hotplug scan reacts to a cpu that went offline or came online only if
\* monitored_cpus_ is empty or holds the cpu: for any other cpu the scan calls
\* no handler, closes, opens, maps and drains no event file, and leaves every
\* event file of that cpu as it was.
C30_ScanReactsToMonitoredCpusOnly ==
  [][\A fail_at \in 0..MaxFailAt :
       CallDetectCpuHotplugEvents(fail_at) =>
         \A cpu \in Cpus :
           NotMonitored(cpu) =>
             /\ \A k \in DOMAIN set_log' :
                  set_log'[k].call # "call fails" => set_log'[k].cpu # cpu
             /\ \A id \in DOMAIN event_files :
                  event_files[id].cpu = cpu => event_files'[id] = event_files[id]
             /\ \A id \in DOMAIN event_files' :
                  id \notin DOMAIN event_files => event_files'[id].cpu # cpu]_vars

\* A scan of a set that monitors cpu 0 only found another cpu offline and
\* returned true: the files opened on that cpu are still open.
C30_Witness ==
  /\ set_op.op = "DetectCpuHotplugEvents" /\ set_op.ok
  /\ monitored_cpus_ = {0}
  /\ \E cpu \in Cpus \ {0} :
       /\ \A n \in DOMAIN online_cpus_ : online_cpus_[n] # cpu
       /\ \E id \in DOMAIN event_files : event_files[id].cpu = cpu /\ event_files[id].open
  /\ set_log = <<>>

\* ---- open failures at a cpu-online event and at the initial open ----
\* The kernel refuses to open the group for the thread on the cpu.
Refused(g, tid, cpu) ==
  \E i \in DOMAIN groups_[g] : ~KernelOpens(Machine, groups_[g][i], tid, cpu)

\* C31: a scan that handles a cpu-online event tries every group that is not a
\* user-space sampler for every target thread on the cpu, whether or not an
\* earlier open on that cpu failed, leaves the files of every group the kernel
\* accepts with its selections, and returns true unless some other call of the
\* scan fails; while an initial OpenEventFiles in which some group cannot be
\* opened for some thread on any of the cpus returns false.
C31_OpenFailureIsWarningWhenOnline ==
  /\ [][\A fail_at \in 0..MaxFailAt :
          CallDetectCpuHotplugEvents(fail_at) =>
            \A cpu \in Cpus :
              (\E k \in DOMAIN set_log' :
                 set_log'[k].call = "HandleCpuOnlineEvent" /\ set_log'[k].cpu = cpu)
              => /\ \A g \in DOMAIN groups_ : \A tid \in TargetThreads :
                      ~IsUserSpaceSamplerGroup(groups_[g]) =>
                        /\ \E k \in DOMAIN set_log' :
                             /\ set_log'[k].call = "OpenEventFilesOnGroup"
                             /\ set_log'[k].cpu = cpu /\ set_log'[k].id = tid
                             /\ set_log'[k].data = <<g>>
                        /\ ~Refused(g, tid, cpu) =>
                             \A i \in DOMAIN groups_[g] :
                               \E n \in DOMAIN groups_'[g][i].event_fds :
                                 LET fd == event_files'[groups_'[g][i].event_fds[n]] IN
                                 fd.open /\ fd.cpu = cpu /\ fd.tid = tid
                 /\ fail_at = 0 => set_op'.ok /\ set_phase' = "monitoring"]_vars
  /\ [](set_op.op = "OpenEventFiles" =>
          ((\E g \in DOMAIN groups_ : \E tid \in TargetThreads :
              /\ ~IsUserSpaceSamplerGroup(groups_[g])
              /\ FailsOnEveryCpu(g, tid, set_op.on_cpus))
           => ~set_op.ok /\ set_phase = "failed"))

\* A scan handled the cpu-online event of a cpu on which the kernel refuses the
\* first group for both target threads: it returned true and the second group
\* has a file on the cpu for each thread.
C31_Witness ==
  /\ Handled("HandleCpuOnlineEvent", MaxCpu) /\ set_op.ok /\ set_phase = "monitoring"
  /\ Len(groups_) = 2 /\ Cardinality(TargetThreads) = 2
  /\ \A tid \in TargetThreads :
       /\ Refused(1, tid, MaxCpu)
       /\ \A k \in DOMAIN FilesOf(1, 1) : FilesOf(1, 1)[k].cpu # MaxCpu
       /\ \E k \in DOMAIN FilesOf(2, 1) :
            FilesOf(2, 1)[k].cpu = MaxCpu /\ FilesOf(2, 1)[k].tid = tid /\ FilesOf(2, 1)[k].open

\* An initial OpenEventFiles on the refusing cpu only returned false.
InitialOpenFailedOnEveryCpu ==
  /\ set_op.op = "OpenEventFiles" /\ ~set_op.ok /\ set_phase = "failed"
  /\ \E g \in DOMAIN groups_ : \E tid \in TargetThreads :
       FailsOnEveryCpu(g, tid, set_op.on_cpus)

\* ---- the symbols of the kernel ----
\* The symbols are unique by address, each ends where the next one starts and
\* the last one at the largest address.
KernelSymbolsAbut ==
  LET seq == SymbolsInOrder(symbols) IN
  /\ \A s1, s2 \in symbols : s1.addr = s2.addr => s1 = s2
  /\ \A i \in DOMAIN seq :
       seq[i].len = IF i < Len(seq) THEN seq[i + 1].addr - seq[i].addr
                    ELSE ULLONG_MAX - seq[i].addr
  /\ \A s1, s2 \in symbols :
       s1 # s2 => s1.addr + s1.len <= s2.addr \/ s2.addr + s2.len <= s1.addr

\* C32: after LoadKernel the symbols are unique by address, each symbol's len is
\* the next symbol's addr minus its own and the last symbol's len reaches the
\* largest address, the ranges are pairwise disjoint, and FindSymbol resolves
\* every address at or above the first symbol to exactly one symbol, which
\* holds the address.
C32_KernelSymbolsCoverAllAddresses ==
  /\ KernelSymbolsAbut
  /\ (found.op = "FindSymbol" /\ \E s \in symbols : s.addr <= found.offset)
       => /\ Cardinality(found.result) = 1
          /\ \A s \in found.result :
               s \in symbols /\ s.addr <= found.offset

\* What holds of the code: every address from the first symbol up to, and not
\* including, the largest address resolves to the one symbol that holds it.
KernelSymbolsCoverBelowMax ==
  /\ KernelSymbolsAbut
  /\ (found.op = "FindSymbol" /\ found.offset < ULLONG_MAX
       /\ \E s \in symbols : s.addr <= found.offset)
       => /\ Cardinality(found.result) = 1
          /\ \A s \in found.result :
               s \in symbols /\ s.addr <= found.offset /\ found.offset < s.addr + s.len
  /\ (found.op = "FindSymbol" /\ found.offset = ULLONG_MAX) => found.result = {}

\* ---- malformed records in a drained buffer ----
\* The record as ReadRecordFromBuffer decodes it from the kernel's bytes.
Decoded(r) == ReadRecordFromBuffer(codec_attr, r.type, KernelBytes(r)).record

\* C24: a malformed record in a drained buffer is the only record lost: the
\* drain returns and the callback has received every well-formed record of the
\* buffer, in order.
C24_MalformedRecordAbortsOnlyItself ==
  drained.op = "ReadMmapEventDataForFd" =>
    /\ drained.status = "returned"
    /\ drained.delivered = [i \in DOMAIN drained.records |-> Decoded(drained.records[i])]

\* ---- one pass over a readable buffer ----
\* C33: a readable notification makes ReadMmapEventDataForFd decode the data of
\* its one fetch and give the records to the record callback in buffer order:
\* it returns true with nothing delivered when no data is available and true
\* with every record delivered when the callback accepts them all; when the
\* callback returns false for a record it returns false and the callback has
\* seen the records up to that one and none after it; records written after
\* the fetch are not delivered and stay in the buffer.
C33_OnePassDeliversInOrder ==
  drained.op = "readable" =>
    LET n == Len(drained.records)
        all == [i \in 1..n |-> Decoded(drained.records[i])]
    IN  /\ drained.status = "returned"
        /\ n = 0 => drained.ok /\ drained.delivered = <<>>
        /\ drained.refuse_at \notin 1..n => drained.ok /\ drained.delivered = all
        /\ drained.refuse_at \in 1..n =>
             ~drained.ok /\ drained.delivered = SubSeq(all, 1, drained.refuse_at)
        /\ drained.left = Concat([i \in DOMAIN drained.later |->
                                    KernelBytes(drained.later[i])])

\* The callback refused the first of two records while the kernel wrote a third
\* one: the handler returned false with one record delivered.
C33_Witness ==
  /\ drained.op = "readable" /\ Len(drained.records) = 2 /\ drained.refuse_at = 1
  /\ ~drained.ok /\ Len(drained.delivered) = 1 /\ drained.left # <<>>
  /\ drained.records[1] # drained.records[2]

\* ---- which file a readable callback drains ----
\* C34: the readable callback registered for an event file drains the buffer of
\* that same file, which is open, also after a cpu-offline event erased other
\* files of the selection and after a cpu-online event appended files to it.
C34_CallbackDrainsItsOwnFile ==
  set_op.op = "readable" =>
    /\ set_op.event_fd = set_op.id
    /\ event_files[set_op.id].open

\* What holds of the code: a closure that holds the EventFd pointer (the one
\* CreateMappedBufferForCpu registers) drains its own file, and so does the
\* closure of PrepareToReadMmapEventData while the vector it refers to is as
\* it was.
CallbackByValueDrainsItsOwnFile ==
  set_op.op = "readable" =>
    LET c == event_files[set_op.id].callback IN
    (c.by = "value" \/ groups_[c.g][c.i].event_fds = c.event_fds)
      => set_op.event_fd = set_op.id /\ event_files[set_op.id].open

\* ---- every pushed record leaves the cache once ----
\* How often the record occurs in the sequence.
TimesIn(seq, r) == Cardinality({i \in DOMAIN seq : seq[i] = r})

\* C35: in every state each record was emitted by Pop and PopAll as often as it
\* was pushed, less the times it is still in the queue, and never more often
\* than that; every pushed record has its own place in the queue until it is
\* emitted; and a PopAll leaves the queue empty, so that every record pushed
\* before it has been emitted exactly once.
C35_EveryRecordEmittedOnce ==
  /\ \A r \in CacheRecords :
       TimesIn(pushed, r) = TimesIn(emitted, r) + Cardinality({x \in queue_ : x.record = r})
  /\ Len(pushed) = Len(emitted) + Cardinality(queue_)
  /\ cache_op.op \in {"PopAll", "PopAll, then go on"} =>
       /\ queue_ = {}
       /\ \A r \in CacheRecords : TimesIn(emitted, r) = TimesIn(pushed, r)

\* MaxPush records, one of them pushed twice, have all been emitted, the last
\* one by the final PopAll and the others before it.
C35_Witness ==
  /\ cache_op.op = "PopAll" /\ Len(pushed) = MaxPush
  /\ Len(cache_op.result) = 1 /\ Len(emitted) = MaxPush
  /\ \E r \in CacheRecords : TimesIn(pushed, r) = 2

\* ---- the periods of the call-chain tree ----
\* The sum of f over the set.
RECURSIVE SumOver(_, _)
SumOver(f, S) ==
  IF S = {} THEN 0
  ELSE LET x == CHOOSE y \in S : TRUE IN f[x] + SumOver(f, S \ {x})

\* The symbol names on the way from the root to node n, its own chain included.
PathNames(n) == NamesAbove(n) \o Names(nodes[n].chain)

\* C36: after any sequence of AddCallChain calls the root's children_period is
\* the sum of the added periods and the sum of the periods of all nodes, and the
\* period of every node is the sum of the periods added with the symbol names on
\* the path from the root to the node, 0 when no chain with these names was
\* added.
C36_PeriodsAccountForAddedChains ==
  ~check_failed =>
    /\ root.children_period = SumOver(added_period, DOMAIN added_period)
    /\ root.children_period =
         SumOver([n \in 1..Len(nodes) |-> nodes[n].period], 1..Len(nodes))
    /\ \A n \in 1..Len(nodes) : nodes[n].period = AddedPeriod(PathNames(n))

\* Three chains were added: a node that a split left with period 0 and names no
\* chain was added with, and below it a node that holds the periods of two
\* additions.
C36_Witness ==
  /\ num_added = MaxStackAdds /\ ~check_failed
  /\ \E n \in 1..Len(nodes) :
       /\ nodes[n].period = 0 /\ PathNames(n) \notin DOMAIN added_period
       /\ Len(nodes[n].children) = 2
       /\ \E i \in DOMAIN nodes[n].children :
            nodes[nodes[n].children[i]].period = 15

\* ---- the descent of AddCallChain ----
\* C37: CHECK_GT(match_count, 0u) never fails for a call chain that is not
\* empty, which is to say that every node AddCallChain descends into starts
\* with the symbol name the call chain has at the position reached; and the
\* loop of one call runs at most as often as the call chain has entries.
C37_DescentAlwaysMatches ==
  /\ ~check_failed
  /\ chain_op.op = "AddCallChain" => descents <= Len(chain_op.callchain)

\* A call chain of two entries went through the loop twice: it matched a node
\* in full, then a child of that node, which took the period.
C37_Witness ==
  /\ chain_op.op = "AddCallChain" /\ ~check_failed /\ chain_op.known
  /\ Len(chain_op.callchain) = 2 /\ descents = 2
  /\ \E n \in 1..Len(nodes) :
       /\ ParentOf(n) # 0 /\ PathNames(n) = Names(chain_op.callchain)
       /\ nodes[n].period \in {10, 15, 20}

(***************************************************************************)
(* C38: a failing AddEventGroup leaves the selection set as it was.        *)
(***************************************************************************)
\* Why AddEventGroup(event_names) fails on the set as it is, or "none".
FailureOf(event_names) ==
  LET built == [i \in DOMAIN event_names |->
                  BuildAndCheckEventSelection(groups_, for_stat_cmd_, machine,
                                              event_names[i])]
  IN  IF \E i \in DOMAIN built : ~built[i].ok
        THEN LET i == CHOOSE i \in DOMAIN built :
                        ~built[i].ok /\ \A j \in 1..(i - 1) : built[j].ok
                 event_type == ParseEventType(event_names[i])
             IN  IF event_type = NoEvent THEN "unknown event"
                 ELSE IF RejectsClockModifier(for_stat_cmd_, event_type)
                   THEN "clock modifier"
                 ELSE IF event_type.event_type.type \in machine.unsupported
                   THEN "unsupported event"
                 ELSE "duplicate name"
      ELSE IF \E i \in DOMAIN event_names :
                ParseEventType(event_names[i]).event_type.type =
                  USER_SPACE_SAMPLER_EVENT_TYPE
        THEN IF Len(event_names) > 1 THEN "sampler in a group"
             ELSE IF for_stat_cmd_ THEN "sampler under stat" ELSE "none"
      ELSE "none"

\* C38: a step of AddEventGroup that returns false, for whichever reason, leaves
\* groups_ as it was (no group added, none of the events of the group that passed
\* their checks, no attribute of an existing selection changed) and changes
\* nothing else of the set.
C38_FailedAddLeavesSetUnchanged ==
  [][(set_op'.op = "AddEventGroup" /\ ~set_op'.ok)
       => /\ groups_' = groups_
          /\ UNCHANGED <<event_files, mmap_pages_, loop_, online_cpus_,
                         monitored_cpus_, set_phase>>]_vars

\* A group failed at its second event, after its first event, a tracepoint whose
\* raw data no selection of the set records, had passed its checks.
C38_Witness ==
  /\ set_op.op = "AddEventGroup" /\ ~set_op.ok
  /\ groups_ # <<>>
  /\ Len(set_op.event_names) = 2
  /\ set_op.event_names[1] = "sched:sched_switch"
  /\ BuildAndCheckEventSelection(groups_, for_stat_cmd_, machine,
                                 set_op.event_names[1]).ok
  /\ FailureOf(set_op.event_names) = "unknown event"
  /\ \A gs \in SelectionIndexes(groups_) : "RAW" \notin SampleTypeOf(groups_, gs)

(***************************************************************************)
(* C39: one open event file for a selection, a thread and a cpu.           *)
(***************************************************************************)
\* The files of selection gs that are open for tid on cpu.
OpenFilesFor(gs, tid, cpu) ==
  {k \in DOMAIN groups_[gs[1]][gs[2]].event_fds :
     LET file == event_files[groups_[gs[1]][gs[2]].event_fds[k]]
     IN  file.open /\ file.tid = tid /\ file.cpu = cpu}

\* C39: in every reachable state a selection holds at most one open event file
\* for a thread and a cpu, also when a cpu went offline after OpenEventFiles and
\* before HandleCpuHotplugEvents took its first snapshot of the online cpus.
C39_OneOpenFilePerThreadAndCpu ==
  \A gs \in SelectionIndexes(groups_) :
    \A tid \in PrepareThreads(processes_, threads_) : \A cpu \in Cpus \cup {-1} :
      Cardinality(OpenFilesFor(gs, tid, cpu)) <= 1

(***************************************************************************)
(* C40: the call-chain tree does not depend on the order of insertion.     *)
(***************************************************************************)
\* CallChainRoot as constructed.
EmptyTree ==
  [root |-> [children_period |-> 0, children |-> <<>>], nodes |-> <<>>,
   check_failed |-> FALSE, descents |-> 0]

\* The tree AddCallChain builds from insertions taken in the order given, from
\* order[k] on.
RECURSIVE BuildFrom(_, _, _, _)
BuildFrom(tree, insertions, order, k) ==
  IF k > Len(order) \/ tree.check_failed THEN tree
  ELSE BuildFrom(AddCallChain(tree, insertions[order[k]][1], insertions[order[k]][2]),
                 insertions, order, k + 1)

\* The nodes below the children ids, each with the symbol names of its chain,
\* the names on the way from the root to it (which name its parent), its period
\* and its children_period.
RECURSIVE NodesUnder(_, _, _)
NodesUnder(heap, ids, above) ==
  UNION {{[above |-> above, names |-> Names(heap[ids[i]].chain),
           period |-> heap[ids[i]].period,
           children_period |-> heap[ids[i]].children_period]}
         \cup NodesUnder(heap, heap[ids[i]].children,
                         above \o Names(heap[ids[i]].chain)) : i \in DOMAIN ids}

\* A tree up to the order of siblings and the ips of its entries.
Shape(tree) ==
  [children_period |-> tree.root.children_period,
   nodes |-> NodesUnder(tree.nodes, tree.root.children, <<>>),
   count |-> Len(tree.nodes),
   check_failed |-> tree.check_failed]

\* The orders the insertions made so far can be taken in.
InsertionOrders == Orders([i \in 1..Len(Insertions) |-> i])

\* C40: the tree built from the insertions made so far has, in whichever order
\* they are taken, the same nodes (symbol names of the chain, period,
\* children_period) under the same parents as the tree the calls built; only the
\* order of siblings may differ.
C40_TreeIndependentOfInsertionOrder ==
  \A order \in InsertionOrders :
    Shape(BuildFrom(EmptyTree, Insertions, order, 1)) = Shape(ChainTree)

\* Three insertions were made, and taken in another order they split other
\* nodes: the trees differ as stored, with a node that was split off.
C40_Witness ==
  /\ Len(Insertions) = MaxOrderAdds /\ ~check_failed
  /\ Len(nodes) >= 3
  /\ \E n \in 1..Len(nodes) : nodes[n].period = 0 /\ Len(nodes[n].children) = 2
  /\ \E order \in InsertionOrders :
       LET other == BuildFrom(EmptyTree, Insertions, order, 1)
       IN  /\ other.nodes # nodes
           /\ \E n \in 1..Len(nodes) : Names(other.nodes[n].chain) # Names(nodes[n].chain)

====
